---------------------------- MODULE Spec2Model ----------------------------
(***************************************************************************)
(* A model of Internal-Engine: the safe memory access layer and scanner    *)
(* (MemoryEngine), the inline detour engine with its length disassembler   *)
(* (DetoursLite, LengthDisassembler), the hook registry (HookManager) and  *)
(* the engine shutdown (dllmain).                                          *)
(*                                                                         *)
(* Pointer-width integers (uintptr_t, size_t) keep their true width: a     *)
(* word is a little-endian sequence of 16-bit limbs, two limbs on the      *)
(* 32-bit build and four on the 64-bit build, and all address arithmetic   *)
(* wraps modulo 2^32 or 2^64 as it does in the program.                    *)
(***************************************************************************)
EXTENDS Integers, Sequences, FiniteSets, TLC

VARIABLES
    is64Bit,        \* DetoursLite::is64Bit: the build (fixed at compile time)
    mem,            \* host memory: region -> the bytes it holds (<<>>: not allocated)
    prot,           \* host memory: region -> its protection (VirtualQuery's Protect)
    trampolines,    \* DetoursLite::trampolines
    hooks,          \* HookManager::hooks (name -> HookInfo)
    addressToName,  \* HookManager::addressToName
    engine,         \* g_HookManager: "running" until CleanupEngine, then "stopped"
    lastOp,         \* the last completed operation, its arguments and its result
    before,         \* history: per hooked target, its bytes before and after the install
    installs,       \* history: how many installs have succeeded
    scan,           \* the scanning client's session: its last request and response
    threads         \* the calling threads and the critical sections they hold

vars == <<is64Bit, mem, prot, trampolines, hooks, addressToName, engine,
          lastOp, before, installs, scan, threads>>

-----------------------------------------------------------------------------
(* Pointer-width words.                                                     *)

LimbBase == 256 * 256

NumLimbs == IF is64Bit THEN 4 ELSE 2

\* The word l1 + l2*2^16 + l3*2^32 + l4*2^48, cut to the build's width.
Wd(l1, l2, l3, l4) == IF is64Bit THEN <<l1, l2, l3, l4>> ELSE <<l1, l2>>

\* The word of a small natural number (below 2^31).
W(n) == Wd(n % LimbBase, n \div LimbBase, 0, 0)

RECURSIVE AddLimbs(_, _, _)
AddLimbs(a, b, carry) ==
    IF a = <<>> THEN <<>>
    ELSE LET s == Head(a) + Head(b) + carry
         IN  <<s % LimbBase>> \o AddLimbs(Tail(a), Tail(b), s \div LimbBase)

\* a + b modulo 2^width (unsigned wrap-around, as uintptr_t arithmetic).
WAdd(a, b) == AddLimbs(a, b, 0)

RECURSIVE SubLimbs(_, _, _)
SubLimbs(a, b, borrow) ==
    IF a = <<>> THEN <<>>
    ELSE LET d == Head(a) - Head(b) - borrow
         IN  <<d % LimbBase>> \o SubLimbs(Tail(a), Tail(b), IF d < 0 THEN 1 ELSE 0)

\* a - b modulo 2^width.
WSub(a, b) == SubLimbs(a, b, 0)

RECURSIVE FinalBorrow(_, _, _)
FinalBorrow(a, b, borrow) ==
    IF a = <<>> THEN borrow
    ELSE FinalBorrow(Tail(a), Tail(b), IF Head(a) - Head(b) - borrow < 0 THEN 1 ELSE 0)

\* Unsigned comparisons.
WLt(a, b) == FinalBorrow(a, b, 0) = 1
WLe(a, b) == ~WLt(b, a)

\* a + n for a small natural n.
WPlus(a, n) == WAdd(a, W(n))

\* Whether a word is a small natural (below 2^31), and that natural.
WIsSmall(a) == /\ \A i \in 3..Len(a) : a[i] = 0
               /\ a[2] < 32768
WToNat(a) == a[1] + a[2] * LimbBase

\* The bytes of a word, least significant first (memcpy of a uintptr_t).
RECURSIVE LimbBytes(_)
LimbBytes(a) ==
    IF a = <<>> THEN <<>>
    ELSE <<Head(a) % 256, Head(a) \div 256>> \o LimbBytes(Tail(a))

WordBytes(a) == LimbBytes(a)

\* The word that pointer-width many bytes denote (a load of a uintptr_t).
RECURSIVE BytesLimbs(_)
BytesLimbs(b) ==
    IF b = <<>> THEN <<>> ELSE <<b[1] + 256 * b[2]>> \o BytesLimbs(Tail(Tail(b)))

BytesWord(b) == BytesLimbs(b)

\* The low 32 bits of a word as four bytes (memcpy of an int32_t or uint32_t).
Low32Bytes(a) == LimbBytes(SubSeq(a, 1, 2))

\* The word four little-endian bytes denote after sign extension (an int32_t
\* displacement added to a pointer).
SignExtend32(b) ==
    LET l1 == b[1] + 256 * b[2]
        l2 == b[3] + 256 * b[4]
        fill == IF l2 >= 32768 THEN LimbBase - 1 ELSE 0
    IN  Wd(l1, l2, fill, fill)

-----------------------------------------------------------------------------
(* The host's virtual memory: a handful of regions of a few bytes each.     *)

CodeRegion  == "code"
TrampSlots  == {"tNear", "tFar"}
DataRegions == {"data", "ro", "na", "rsv"}
Regions     == {CodeRegion} \cup TrampSlots \cup DataRegions

RegionBase(r) ==
    CASE r = "code"  -> Wd(4096, 64, 0, 0)        \* 0x00401000
      [] r = "tNear" -> Wd(0, 80, 0, 0)           \* 0x00500000
      [] r = "tFar"  -> Wd(0, 32512, 2, 0)        \* 0x7F000000 / 0x2_7F00_0000
      [] r = "data"  -> Wd(0, 160, 0, 0)          \* 0x00A00000
      [] r = "ro"    -> Wd(0, 176, 0, 0)          \* 0x00B00000
      [] r = "na"    -> Wd(0, 192, 0, 0)          \* 0x00C00000
      [] r = "rsv"   -> Wd(0, 208, 0, 0)          \* 0x00D00000

RegionSize(r) == Len(mem[r])

\* Whether address a lies in region r of memory m.  No region straddles a
\* 64 KiB boundary, so the addresses of a region differ in the low limb only.
InRegion(m, r, a) ==
    LET b == RegionBase(r)
    IN  Tail(a) = Tail(b) /\ a[1] >= b[1] /\ a[1] - b[1] < Len(m[r])

RegionOf(m, a) ==
    LET holding == {r \in Regions : InRegion(m, r, a)}
    IN  IF holding = {} THEN "none" ELSE CHOOSE r \in holding : TRUE

OffsetIn(r, a) == a[1] - RegionBase(r)[1]

\* A raw read of one byte (no guard): -1 stands for the access violation of a
\* read outside every region.
Peek(m, a) ==
    LET r == RegionOf(m, a)
    IN  IF r = "none" THEN -1 ELSE m[r][OffsetIn(r, a) + 1]

\* A raw write of the bytes bs at address a (memcpy).  A write that starts
\* outside every region changes nothing here (it is an access violation), and
\* the regions lie far apart, so a write is cut at the end of its region.
Poke(m, a, bs) ==
    LET r == RegionOf(m, a)
    IN  IF r = "none" \/ bs = <<>> THEN m
        ELSE LET off == OffsetIn(r, a)
                 old == m[r]
                 n   == IF Len(bs) < Len(old) - off THEN Len(bs) ELSE Len(old) - off
             IN  [m EXCEPT ![r] = SubSeq(old, 1, off) \o SubSeq(bs, 1, n)
                                   \o SubSeq(old, off + n + 1, Len(old))]

\* The n bytes at address a.
PeekN(m, a, n) ==
    LET r == RegionOf(m, a)
    IN  IF r # "none" /\ OffsetIn(r, a) + n <= Len(m[r])
        THEN SubSeq(m[r], OffsetIn(r, a) + 1, OffsetIn(r, a) + n)
        ELSE SubSeq([i \in 1..n |-> Peek(m, WPlus(a, i - 1))], 1, n)

-----------------------------------------------------------------------------
(* LengthDisassembler (DetoursLite.cpp).  A pointer `const uint8_t* data`   *)
(* is the bytes of the region it points into and the offset k of data[0].   *)

\* data[i] of a pointer at offset k: -1 stands for a read outside the region.
At(bytes, k, i) == IF k + i + 1 <= Len(bytes) THEN bytes[k + i + 1] ELSE -1

IsRexPrefix(byte) == byte \div 16 = 4          \* (byte & 0xF0) == 0x40

IsPrefix(byte) ==
    \/ byte \in {38, 46, 54, 62, 100, 101}     \* 26 2E 36 3E 64 65
    \/ byte = 102                              \* 66
    \/ byte = 103                              \* 67
    \/ byte \in {240, 242, 243}                \* F0 F2 F3
    \/ byte \div 16 = 4                        \* (byte & 0xF0) == 0x40

GetModRMSize(modRM, hasRex) ==
    LET mod == (modRM \div 64) % 4
        rm  == modRM % 8
    IN  CASE mod = 0 -> (IF rm = 5 THEN 4 ELSE IF rm = 4 THEN 1 ELSE 0)
          [] mod = 1 -> 1 + (IF rm = 4 THEN 1 ELSE 0)
          [] mod = 2 -> 4 + (IF rm = 4 THEN 1 ELSE 0)
          [] OTHER   -> 0

GetOpcodeSize(bytes, k, hasRex) ==
    LET first  == At(bytes, k, 0)
        second == At(bytes, k, 1)
        twoByte == first = 15                                    \* 0x0F
        opcode == IF twoByte THEN second ELSE first
        size   == IF twoByte THEN (IF opcode \in {56, 58} THEN 3 ELSE 2) ELSE 1
        hasModRM ==
            \/ opcode \div 4 = 32        \* (opcode & 0xFC) == 0x80
            \/ opcode \div 2 = 68        \* (opcode & 0xFE) == 0x88
            \/ opcode \div 4 = 35        \* (opcode & 0xFC) == 0x8C
            \/ opcode \div 2 = 99        \* (opcode & 0xFE) == 0xC6
            \/ opcode \div 4 = 52        \* (opcode & 0xFC) == 0xD0
            \/ opcode \div 2 = 123       \* (opcode & 0xFE) == 0xF6
            \/ opcode \div 2 = 127       \* (opcode & 0xFE) == 0xFE
        modRM  == At(bytes, k, size)
        imm    == IF opcode \div 4 = 32 \/ opcode \div 2 = 99
                  THEN (IF opcode % 2 = 0 THEN 1 ELSE 4)
                  ELSE 0
    IN  IF (opcode >= 80 /\ opcode <= 95) \/ (opcode >= 144 /\ opcode <= 151)
           \/ (opcode >= 160 /\ opcode <= 163)
        THEN size
        ELSE IF opcode \in {232, 233} THEN size + 4               \* E8 E9
        ELSE IF opcode = 235 THEN size + 1                        \* EB
        ELSE IF hasModRM THEN size + 1 + GetModRMSize(modRM, hasRex) + imm
        ELSE size

\* The prefix loop of GetLength: the offset of the first non-prefix byte and
\* whether a REX prefix was seen.
RECURSIVE SkipPrefixes(_, _, _, _)
SkipPrefixes(bytes, k, offset, hasRex) ==
    LET byte == At(bytes, k, offset)
    IN  IF IsPrefix(byte)
        THEN SkipPrefixes(bytes, k, offset + 1, hasRex \/ IsRexPrefix(byte))
        ELSE [offset |-> offset, hasRex |-> hasRex]

GetLength(bytes, k) ==
    LET p == SkipPrefixes(bytes, k, 0, FALSE)
    IN  p.offset + GetOpcodeSize(bytes, k + p.offset, p.hasRex)

-----------------------------------------------------------------------------
(* DetoursLite (DetoursLite.cpp).  The operations are functions of a world   *)
(* w = [mem, prot, trampolines] and of what the host answers (env); each     *)
(* returns the world it leaves and its return value.                         *)

HookTypes == {"JMP_RELATIVE", "JMP_ABSOLUTE", "PUSH_RET", "AUTO"}

\* A trampoline region stands for the page VirtualAlloc returns.
TrampPageSize == 32

ZeroBytes(n) == SubSeq([i \in 1..n |-> 0], 1, n)
NopBytes(n)  == SubSeq([i \in 1..n |-> 144], 1, n)                           \* 0x90

\* Whether a load at address a through a raw pointer raises an access
\* violation: the address lies outside every region or in a region the host
\* cannot read.
LoadFaults(w, a) ==
    \/ RegionOf(w.mem, a) = "none"
    \/ w.prot[RegionOf(w.mem, a)] = "PAGE_NOACCESS"

\* The n bytes a load at address a yields; the bytes of the page beyond the
\* ones the region lists are zero.
LoadBytes(m, a, n) == [i \in 1..n |-> IF Peek(m, WPlus(a, i - 1)) = -1 THEN 0 ELSE Peek(m, WPlus(a, i - 1))]

\* reinterpret_cast of an address to a pointer into the region holding it.
GetInstructionLength(m, a) ==
    LET r == RegionOf(m, a)
    IN  IF r = "none" THEN 1 ELSE GetLength(m[r], OffsetIn(r, a))

CalculateHookSize(type) ==
    CASE type = "JMP_RELATIVE" -> 5
      [] type = "JMP_ABSOLUTE" -> (IF is64Bit THEN 14 ELSE 6)
      [] type = "PUSH_RET"     -> (IF is64Bit THEN 14 ELSE 6)
      [] OTHER                 -> 5

\* static_cast<int32_t>(to - from), as the four bytes memcpy stores.
CalculateRelativeOffset(from, to) == Low32Bytes(WSub(to, from))

\* The bytes WriteJumpRelative stores at `from`.
JumpRelativeBytes(from, to) == <<233>> \o CalculateRelativeOffset(WPlus(from, 5), to)

\* The bytes WriteJumpAbsolute stores.  On the 32-bit build the operand is the
\* address of the parameter `to` itself, a stack slot: stackAddr.
JumpAbsoluteBytes(to, stackAddr) ==
    IF is64Bit
    THEN <<255, 37, 0, 0, 0, 0>> \o WordBytes(to)
    ELSE <<255, 37>> \o WordBytes(stackAddr)

PushRetBytes(to) == <<104>> \o Low32Bytes(to) \o <<195>>          \* 68 imm32 C3

\* The hook bytes the switch of InstallHook writes for a resolved type, and
\* whether the write reports success.
HookWrite(type, target, detour, stackAddr) ==
    CASE type = "JMP_RELATIVE" -> [ok |-> TRUE, bytes |-> JumpRelativeBytes(target, detour)]
      [] type = "JMP_ABSOLUTE" -> [ok |-> TRUE, bytes |-> JumpAbsoluteBytes(detour, stackAddr)]
      [] type = "PUSH_RET"     -> IF is64Bit THEN [ok |-> FALSE, bytes |-> <<>>]
                                  ELSE [ok |-> TRUE, bytes |-> PushRetBytes(detour)]

ResolveType(type) ==
    IF type = "AUTO" THEN (IF is64Bit THEN "JMP_ABSOLUTE" ELSE "JMP_RELATIVE") ELSE type

\* The while loop of InstallHook: the bytes to copy, or 0 when an instruction
\* length is 0.  bytes and k are the region of the target and its offset.
RECURSIVE BytesToCopyFrom(_, _, _, _)
BytesToCopyFrom(bytes, k, hookSize, n) ==
    IF n >= hookSize THEN n
    ELSE LET len == GetLength(bytes, k + n)
         IN  IF len = 0 THEN 0 ELSE BytesToCopyFrom(bytes, k, hookSize, n + len)

BytesToCopy(m, target, hookSize) ==
    LET r == RegionOf(m, target)
    IN  IF r = "none" THEN 0 ELSE BytesToCopyFrom(m[r], OffsetIn(r, target), hookSize, 0)

\* The four bytes buf[k+1..k+4] of a buffer with those bytes replaced.
SetBytes(buf, k, bs) == SubSeq(buf, 1, k) \o bs \o SubSeq(buf, k + Len(bs) + 1, Len(buf))

\* RelocateInstruction on the instruction at offset k of the trampoline buffer.
RelocateInstruction(buf, k, oldAddress, newAddress) ==
    IF At(buf, k, 0) \in {232, 233}
    THEN LET targetAddress ==
                 WAdd(WPlus(oldAddress, 5), SignExtend32(SubSeq(buf, k + 2, k + 5)))
         IN  SetBytes(buf, k + 1, CalculateRelativeOffset(WPlus(newAddress, 5), targetAddress))
    ELSE IF At(buf, k, 0) = 15 /\ At(buf, k, 1) \div 16 = 8
    THEN LET targetAddress ==
                 WAdd(WPlus(oldAddress, 6), SignExtend32(SubSeq(buf, k + 3, k + 6)))
         IN  SetBytes(buf, k + 2, CalculateRelativeOffset(WPlus(newAddress, 6), targetAddress))
    ELSE buf

\* The relocation loop of BuildTrampoline from offset i on.
RECURSIVE RelocateFrom(_, _, _, _, _)
RelocateFrom(buf, i, originalSize, originalAddress, trampolineAddress) ==
    IF i >= originalSize THEN buf
    ELSE LET len  == GetLength(buf, i)
             buf2 == RelocateInstruction(buf, i, WPlus(originalAddress, i),
                                         WPlus(trampolineAddress, i))
         IN  RelocateFrom(buf2, i + len, originalSize, originalAddress, trampolineAddress)

\* The trampoline buffer (a fresh zeroed page) as BuildTrampoline leaves it.
BuildTrampoline(trampolineBuffer, originalBytes, originalSize, originalAddress, trampolineAddress) ==
    LET copied    == SetBytes(trampolineBuffer, 0, originalBytes)
        relocated == RelocateFrom(copied, 0, originalSize, originalAddress,
                                  trampolineAddress)
    IN  SetBytes(relocated, originalSize,
                 JumpRelativeBytes(WPlus(trampolineAddress, originalSize),
                                   WPlus(originalAddress, originalSize)))

FindTrampoline(ts, targetFunction) ==
    IF \E i \in 1..Len(ts) : ts[i].originalFunction = targetFunction
    THEN CHOOSE i \in 1..Len(ts) :
            /\ ts[i].originalFunction = targetFunction
            /\ \A j \in 1..(i - 1) : ts[j].originalFunction # targetFunction
    ELSE 0

DL_IsHooked(ts, address) == \E i \in 1..Len(ts) : ts[i].originalFunction = address

RemoveAt(seq, i) == SubSeq(seq, 1, i - 1) \o SubSeq(seq, i + 1, Len(seq))

\* VirtualFree(address, 0, MEM_RELEASE) of a trampoline region.
VirtualFree(w, slot) ==
    [w EXCEPT !.mem[slot] = <<>>, !.prot[slot] = "PAGE_NOACCESS"]

\* env.slot: the region VirtualAlloc returns ("fail": it returns null);
\* env.vpOk: whether the VirtualProtect that makes the target writable
\* succeeds; env.stackAddr: where the parameter `to` lives.  fault: the
\* decoding of the prologue, which reads the target through a raw pointer,
\* raised an access violation that nothing handles.
DL_InstallHook(w, targetFunction, detourFunction, type0, env) ==
    LET failure(world) == [w |-> world, ret |-> FALSE, orig |-> W(0), fault |-> FALSE]
        patch(hookSize, bytesToCopy, originalBytes, built, hw) ==
            LET written == Poke(built.mem, targetFunction, hw.bytes)
                padded  == IF bytesToCopy > hookSize
                           THEN Poke(written, WPlus(targetFunction, hookSize),
                                     NopBytes(bytesToCopy - hookSize))
                           ELSE written
                tramp   == [originalFunction  |-> targetFunction,
                            trampolineAddress |-> RegionBase(env.slot),
                            originalSize      |-> bytesToCopy,
                            originalBytes     |-> originalBytes,
                            isActive          |-> TRUE]
            IN  IF ~env.vpOk THEN failure(VirtualFree(built, env.slot))
                ELSE IF hw.ok
                THEN [w |-> [built EXCEPT !.mem = padded,
                                          !.trampolines = Append(w.trampolines, tramp)],
                      ret |-> TRUE, orig |-> RegionBase(env.slot), fault |-> FALSE]
                ELSE failure(VirtualFree(built, env.slot))
        build(type, hookSize, bytesToCopy, originalBytes) ==
            IF bytesToCopy = 0 THEN failure(w)
            ELSE IF env.slot = "fail" THEN failure(w)
            ELSE patch(hookSize, bytesToCopy, originalBytes,
                       [w EXCEPT !.mem[env.slot] =
                                     BuildTrampoline(ZeroBytes(TrampPageSize), originalBytes,
                                                     bytesToCopy, targetFunction,
                                                     RegionBase(env.slot)),
                                 !.prot[env.slot] = "PAGE_EXECUTE_READWRITE"],
                       HookWrite(type, targetFunction, detourFunction, env.stackAddr))
        copy(type, hookSize, bytesToCopy) ==
            build(type, hookSize, bytesToCopy, PeekN(w.mem, targetFunction, bytesToCopy))
        decode(type, hookSize) ==
            copy(type, hookSize, BytesToCopy(w.mem, targetFunction, hookSize))
        resolved(type) == decode(type, CalculateHookSize(type))
    IN  IF DL_IsHooked(w.trampolines, targetFunction) THEN failure(w)
        ELSE IF LoadFaults(w, targetFunction)
        THEN [w |-> w, ret |-> FALSE, orig |-> W(0), fault |-> TRUE]
        ELSE resolved(ResolveType(type0))

\* A RemoveHook that frees the trampoline and drops the entry without copying
\* the saved bytes back.
DL_RemoveHook_NoRestore(w, targetFunction, env) ==
    LET remove(i, slot) ==
            IF i = 0 THEN [w |-> w, ret |-> FALSE]
            ELSE IF ~env.vpOk THEN [w |-> w, ret |-> FALSE]
            ELSE [w |-> [VirtualFree(w, slot)
                            EXCEPT !.trampolines = RemoveAt(w.trampolines, i)],
                  ret |-> TRUE]
        found(i) == remove(i, RegionOf(w.mem, w.trampolines[i].trampolineAddress))
    IN  found(FindTrampoline(w.trampolines, targetFunction))

\* env.vpOk: whether the VirtualProtect that makes the target writable succeeds.
DL_RemoveHook(w, targetFunction, env) ==
    LET remove(i, it, slot) ==
            IF i = 0 THEN [w |-> w, ret |-> FALSE]
            ELSE IF ~env.vpOk THEN [w |-> w, ret |-> FALSE]
            ELSE [w |-> [VirtualFree([w EXCEPT !.mem =
                                         Poke(w.mem, targetFunction,
                                              SubSeq(it.originalBytes, 1, it.originalSize))],
                                     slot)
                            EXCEPT !.trampolines = RemoveAt(w.trampolines, i)],
                  ret |-> TRUE]
        found(i) == remove(i, w.trampolines[i],
                           RegionOf(w.mem, w.trampolines[i].trampolineAddress))
    IN  found(FindTrampoline(w.trampolines, targetFunction))

DL_EnableHook(w, targetFunction) ==
    LET enable(i) ==
            IF i = 0 \/ w.trampolines[i].isActive THEN [w |-> w, ret |-> FALSE]
            ELSE [w |-> [w EXCEPT !.trampolines[i].isActive = TRUE], ret |-> TRUE]
    IN  enable(FindTrampoline(w.trampolines, targetFunction))

DL_DisableHook(w, targetFunction, env) ==
    LET disable(i) ==
            IF i = 0 \/ ~w.trampolines[i].isActive THEN [w |-> w, ret |-> FALSE]
            ELSE IF ~env.vpOk THEN [w |-> w, ret |-> FALSE]
            ELSE [w |-> [w EXCEPT !.mem = Poke(w.mem, targetFunction,
                                               SubSeq(w.trampolines[i].originalBytes, 1,
                                                      w.trampolines[i].originalSize)),
                                  !.trampolines[i].isActive = FALSE],
                  ret |-> TRUE]
    IN  disable(FindTrampoline(w.trampolines, targetFunction))

-----------------------------------------------------------------------------
(* HookManager (HookManager.cpp), on a state s that extends the world with   *)
(* the registry maps hooks and addressToName.                                *)

Names == {"a", "b"}

\* std::map iterates its keys in order.
NameOrder == <<"a", "b">>

\* f with key k set to v, and f without key k.
MapPut(f, k, v) == (k :> v) @@ f
MapErase(f, k)  == [x \in DOMAIN f \ {k} |-> f[x]]

EmptyMap == [x \in {} |-> 0]

\* An InstallHook that records the hook whatever the detour engine answers.
HM_InstallHook_RegisterAlways(s, name, targetAddress, detourAddress, type, env) ==
    LET register(r) ==
            [s |-> [r.w EXCEPT
                       !.addressToName = MapPut(@, targetAddress, name),
                       !.hooks = MapPut(@, name,
                                        [name            |-> name,
                                         targetAddress   |-> targetAddress,
                                         detourAddress   |-> detourAddress,
                                         originalAddress |-> r.orig,
                                         type            |-> type,
                                         isActive        |-> TRUE])],
             ret |-> r.ret, fault |-> r.fault]
    IN  IF name \in DOMAIN s.hooks THEN [s |-> s, ret |-> FALSE, fault |-> FALSE]
        ELSE IF targetAddress \in DOMAIN s.addressToName
        THEN [s |-> s, ret |-> FALSE, fault |-> FALSE]
        ELSE register(DL_InstallHook(s, targetAddress, detourAddress, type, env))

HM_InstallHook(s, name, targetAddress, detourAddress, type, env) ==
    LET register(r) ==
            IF r.ret
            THEN [s |-> [r.w EXCEPT
                            !.addressToName = MapPut(@, targetAddress, name),
                            !.hooks = MapPut(@, name,
                                             [name            |-> name,
                                              targetAddress   |-> targetAddress,
                                              detourAddress   |-> detourAddress,
                                              originalAddress |-> r.orig,
                                              type            |-> type,
                                              isActive        |-> TRUE])],
                  ret |-> TRUE, fault |-> FALSE]
            ELSE [s |-> r.w, ret |-> FALSE, fault |-> r.fault]
    IN  IF name \in DOMAIN s.hooks THEN [s |-> s, ret |-> FALSE, fault |-> FALSE]
        ELSE IF targetAddress \in DOMAIN s.addressToName
        THEN [s |-> s, ret |-> FALSE, fault |-> FALSE]
        ELSE register(DL_InstallHook(s, targetAddress, detourAddress, type, env))

\* GetVTableFunction: two loads through raw pointers.  kind "fault": a load
\* raised an access violation.
GetVTableFunction(w, objectPtr, index) ==
    LET width == IF is64Bit THEN 8 ELSE 4
        entry(slot) ==
            IF LoadFaults(w, slot) THEN [kind |-> "fault", value |-> W(0)]
            ELSE [kind |-> "returned", value |-> BytesWord(LoadBytes(w.mem, slot, width))]
        lookup(vtable) ==
            IF vtable = W(0) THEN [kind |-> "returned", value |-> W(0)]
            ELSE entry(WPlus(vtable, index * width))
    IN  IF objectPtr = W(0) THEN [kind |-> "returned", value |-> W(0)]
        ELSE IF LoadFaults(w, objectPtr) THEN [kind |-> "fault", value |-> W(0)]
        ELSE lookup(BytesWord(LoadBytes(w.mem, objectPtr, width)))

\* A RemoveHook that erases the name and leaves the address entry behind.
HM_RemoveHook_KeepAddress(s, name, env) ==
    LET erase(r) ==
            IF r.ret
            THEN [s |-> [r.w EXCEPT !.hooks = MapErase(@, name)], ret |-> TRUE]
            ELSE [s |-> r.w, ret |-> FALSE]
    IN  IF name \notin DOMAIN s.hooks THEN [s |-> s, ret |-> FALSE]
        ELSE erase(DL_RemoveHook(s, s.hooks[name].targetAddress, env))

HM_RemoveHook(s, name, env) ==
    LET erase(target, r) ==
            IF r.ret
            THEN [s |-> [r.w EXCEPT !.addressToName = MapErase(@, target),
                                    !.hooks = MapErase(@, name)],
                  ret |-> TRUE]
            ELSE [s |-> r.w, ret |-> FALSE]
    IN  IF name \notin DOMAIN s.hooks THEN [s |-> s, ret |-> FALSE]
        ELSE erase(s.hooks[name].targetAddress,
                   DL_RemoveHook(s, s.hooks[name].targetAddress, env))

HM_EnableHook(s, name) ==
    LET flag(r) ==
            IF r.ret
            THEN [s |-> [r.w EXCEPT !.hooks[name].isActive = TRUE], ret |-> TRUE]
            ELSE [s |-> r.w, ret |-> FALSE]
    IN  IF name \notin DOMAIN s.hooks THEN [s |-> s, ret |-> FALSE]
        ELSE flag(DL_EnableHook(s, s.hooks[name].targetAddress))

\* A DisableHook that clears the registry flag whatever DetoursLite answers.
HM_DisableHook_FlagAlways(s, name, env) ==
    LET flag(r) == [s |-> [r.w EXCEPT !.hooks[name].isActive = FALSE], ret |-> r.ret]
    IN  IF name \notin DOMAIN s.hooks THEN [s |-> s, ret |-> FALSE]
        ELSE flag(DL_DisableHook(s, s.hooks[name].targetAddress, env))

HM_DisableHook(s, name, env) ==
    LET flag(r) ==
            IF r.ret
            THEN [s |-> [r.w EXCEPT !.hooks[name].isActive = FALSE], ret |-> TRUE]
            ELSE [s |-> r.w, ret |-> FALSE]
    IN  IF name \notin DOMAIN s.hooks THEN [s |-> s, ret |-> FALSE]
        ELSE flag(DL_DisableHook(s, s.hooks[name].targetAddress, env))

HM_ToggleHook(s, name, env) ==
    IF name \notin DOMAIN s.hooks THEN [s |-> s, ret |-> FALSE]
    ELSE IF s.hooks[name].isActive THEN HM_DisableHook(s, name, env)
    ELSE HM_EnableHook(s, name)

\* The removal loop of RemoveAllHooks over the collected names from index i
\* on; envs gives the host's answer for each removal.  attempts lists every
\* name RemoveHook was called for with what it returned.
RECURSIVE RemoveEach(_, _, _, _)
RemoveEach(s, hookNames, i, envs) ==
    LET collect(r, rest) ==
            [s |-> rest.s,
             ret |-> r.ret /\ rest.ret,
             attempts |-> <<[name |-> hookNames[i], ret |-> r.ret]>> \o rest.attempts]
        continue(r) == collect(r, RemoveEach(r.s, hookNames, i + 1, envs))
    IN  IF i > Len(hookNames) THEN [s |-> s, ret |-> TRUE, attempts |-> <<>>]
        ELSE continue(HM_RemoveHook(s, hookNames[i], envs[hookNames[i]]))

HM_RemoveAllHooks(s, envs) ==
    LET hookNames == SelectSeq(NameOrder, LAMBDA n : n \in DOMAIN s.hooks)
    IN  RemoveEach(s, hookNames, 1, envs)

\* CleanupEngine: RemoveAllHooks, then delete g_HookManager, whose destructor
\* calls RemoveAllHooks again and destroys the two maps.
CleanupEngine_Hooks(s, envs1, envs2) ==
    LET destroy(first, second) ==
            [s |-> [second.s EXCEPT !.hooks = EmptyMap, !.addressToName = EmptyMap],
             ret |-> first.ret,
             attempts |-> first.attempts]
        again(first) == destroy(first, HM_RemoveAllHooks(first.s, envs2))
    IN  again(HM_RemoveAllHooks(s, envs1))

-----------------------------------------------------------------------------
(* The hook subsystem as a state machine: one action per HookManager        *)
(* operation, called by one thread at a time.                                *)

\* The code the targets live in.  The first function is the prologue of the
\* spec's scenario (push rbp; mov rbp,rsp; sub rsp,0x20; ...), the second
\* starts with a CALL rel32 and a near conditional jump.
CodeBytes ==
    <<85, 72, 137, 229, 72, 131, 236, 32, 137, 125, 252, 139, 69, 252, 93, 195,
      232, 16, 0, 0, 0, 15, 132, 32, 0, 0, 0, 195, 204, 204, 204, 204,
      204, 204, 204, 204, 204, 204, 204, 204>>

Detour == Wd(8192, 96, 0, 0)                                     \* 0x00602000

\* Where the parameter `to` of WriteJumpAbsolute may live on the stack.
StackAddrs == {Wd(65280, 25, 0, 0), Wd(65024, 25, 0, 0)}

InitMem ==
    [code |-> CodeBytes, tNear |-> <<>>, tFar |-> <<>>, data |-> <<0, 0, 0, 0>>,
     ro |-> <<1, 2, 3, 4>>, na |-> <<0, 0, 0, 0>>, rsv |-> <<0, 0, 0, 0>>]

InitProt ==
    [code |-> "PAGE_EXECUTE_READ", tNear |-> "PAGE_NOACCESS", tFar |-> "PAGE_NOACCESS",
     data |-> "PAGE_READWRITE", ro |-> "PAGE_READONLY", na |-> "PAGE_NOACCESS",
     rsv |-> "PAGE_NOACCESS"]

\* What the history variables hold before any operation.
NoScan == [op |-> "none"]
NoThreads == [pc |-> "none"]
NoHistory == [name |-> "", bytes |-> <<>>, hooked |-> <<>>, slot |-> "fail"]

\* lastOp: the last call, what it returned, and what held when it was made
\* (pre: the history of its target; wasActive: the registry flag of its hook;
\* wasRestored: its target held the bytes from before the install; all: the
\* history of every hook; attempts: the removals a remove-all made; fresh:
\* neither the name nor the target of the request was registered).
NoOp == [op |-> "none", name |-> "", target |-> <<>>, ret |-> FALSE,
         pre |-> NoHistory, wasActive |-> FALSE, wasRestored |-> FALSE,
         all |-> EmptyMap, attempts |-> <<>>, fresh |-> FALSE]

HookState == [mem |-> mem, prot |-> prot, trampolines |-> trampolines,
              hooks |-> hooks, addressToName |-> addressToName]

SetHookState(s) ==
    /\ mem' = s.mem
    /\ prot' = s.prot
    /\ trampolines' = s.trampolines
    /\ hooks' = s.hooks
    /\ addressToName' = s.addressToName

\* What VirtualAlloc may return: the lowest free trampoline region, or null.
AllocAnswers ==
    {IF mem["tNear"] = <<>> THEN "tNear" ELSE IF mem["tFar"] = <<>> THEN "tFar" ELSE "fail",
     "fail"}

\* The parameter `to` matters only to the 32-bit WriteJumpAbsolute.
StackAnswers(type) ==
    IF ~is64Bit /\ type = "JMP_ABSOLUTE" THEN StackAddrs ELSE {Wd(65280, 25, 0, 0)}

\* Whether a VirtualProtect succeeds; asked only of calls that reach it.
ProtectEnvs == [vpOk : BOOLEAN]
ProtectAnswers(name) == IF name \in DOMAIN hooks THEN ProtectEnvs ELSE {[vpOk |-> TRUE]}
ProtectAnswersAll ==
    {e \in [Names -> ProtectEnvs] : \A n \in Names \ DOMAIN hooks : e[n].vpOk}

\* How many installs may succeed in one run.
MaxInstalls == 2

\* The install calls the clients make: a hook on the first function, and a
\* second hook on the same address, inside the first hook's bytes, or on the
\* second function.
HookRequests ==
    {[name |-> "a", target |-> RegionBase(CodeRegion), type |-> "AUTO"],
     [name |-> "a", target |-> RegionBase(CodeRegion), type |-> "PUSH_RET"],
     [name |-> "b", target |-> RegionBase(CodeRegion), type |-> "JMP_RELATIVE"],
     [name |-> "b", target |-> WPlus(RegionBase(CodeRegion), 1), type |-> "JMP_RELATIVE"],
     [name |-> "b", target |-> WPlus(RegionBase(CodeRegion), 16), type |-> "JMP_ABSOLUTE"],
     [name |-> "b", target |-> RegionBase("na"), type |-> "JMP_RELATIVE"]}

\* The objects whose virtual function a caller looks up: a null pointer,
\* objects in readable memory, and a pointer into memory that cannot be read.
ObjectPtrs == {W(0), RegionBase("data"), RegionBase("ro"), RegionBase("na")}

\* The target of a registered hook.
TargetOf(name) == IF name \in DOMAIN hooks THEN hooks[name].targetAddress ELSE <<>>

HistoryOf(target) == IF target \in DOMAIN before THEN before[target] ELSE NoHistory

\* The length of the prologue DetoursLite saved for a target.
PrologueLength(ts, target) ==
    LET i == FindTrampoline(ts, target) IN IF i = 0 THEN 0 ELSE ts[i].originalSize

InitHooks ==
    /\ is64Bit \in BOOLEAN
    /\ mem = InitMem
    /\ prot = InitProt
    /\ trampolines = <<>>
    /\ hooks = EmptyMap
    /\ addressToName = EmptyMap
    /\ engine = "running"
    /\ lastOp = NoOp
    /\ before = EmptyMap
    /\ installs = 0
    /\ scan = NoScan
    /\ threads = NoThreads

InstallHook ==
    /\ engine = "running"
    /\ installs < MaxInstalls
    /\ \E q \in HookRequests, slot \in AllocAnswers :
       \E vpOk \in (IF slot = "fail" \/ RegionOf(mem, q.target) # CodeRegion
                    THEN {TRUE} ELSE BOOLEAN) :
       \E stackAddr \in StackAnswers(q.type) :
       \E r \in {HM_InstallHook(HookState, q.name, q.target, Detour, q.type,
                                  [slot |-> slot, vpOk |-> vpOk, stackAddr |-> stackAddr])} :
          LET n == PrologueLength(r.s.trampolines, q.target)
          IN  /\ SetHookState(r.s)
              /\ lastOp' = [NoOp EXCEPT !.op = "install", !.name = q.name,
                                        !.target = q.target, !.ret = r.ret]
              /\ before' = IF r.ret
                            THEN MapPut(before, q.target,
                                        [name   |-> q.name,
                                         bytes  |-> PeekN(mem, q.target, n),
                                         hooked |-> PeekN(r.s.mem, q.target, n),
                                         slot   |-> slot])
                            ELSE before
              /\ installs' = IF r.ret THEN installs + 1 ELSE installs
              /\ engine' = IF r.fault THEN "crashed" ELSE engine
    /\ UNCHANGED <<is64Bit, scan, threads>>

RemoveHook ==
    /\ engine = "running"
    /\ \E name \in Names : \E env \in ProtectAnswers(name) :
       \E r \in {HM_RemoveHook(HookState, name, env)} :
          LET target == TargetOf(name)
          IN  /\ SetHookState(r.s)
              /\ lastOp' = [NoOp EXCEPT !.op = "remove", !.name = name,
                                        !.target = target, !.ret = r.ret,
                                        !.pre = HistoryOf(target),
                                        !.wasActive = (name \in DOMAIN hooks
                                                        /\ hooks[name].isActive),
                                        !.wasRestored =
                                            (target \in DOMAIN before
                                             /\ PeekN(mem, target, Len(before[target].bytes))
                                                  = before[target].bytes)]
              /\ before' = IF r.ret THEN MapErase(before, target) ELSE before
    /\ UNCHANGED <<is64Bit, engine, installs, scan, threads>>

EnableHook ==
    /\ engine = "running"
    /\ \E name \in Names :
       \E r \in {HM_EnableHook(HookState, name)} :
              /\ SetHookState(r.s)
              /\ lastOp' = [NoOp EXCEPT !.op = "enable", !.name = name,
                                        !.target = TargetOf(name), !.ret = r.ret]
    /\ UNCHANGED <<is64Bit, engine, before, installs, scan, threads>>

DisableHook ==
    /\ engine = "running"
    /\ \E name \in Names : \E env \in ProtectAnswers(name) :
       \E r \in {HM_DisableHook(HookState, name, env)} :
              /\ SetHookState(r.s)
              /\ lastOp' = [NoOp EXCEPT !.op = "disable", !.name = name,
                                        !.target = TargetOf(name), !.ret = r.ret]
    /\ UNCHANGED <<is64Bit, engine, before, installs, scan, threads>>

ToggleHook ==
    /\ engine = "running"
    /\ \E name \in Names : \E env \in ProtectAnswers(name) :
       \E r \in {HM_ToggleHook(HookState, name, env)} :
              /\ SetHookState(r.s)
              /\ lastOp' = [NoOp EXCEPT !.op = "toggle", !.name = name,
                                        !.target = TargetOf(name), !.ret = r.ret]
    /\ UNCHANGED <<is64Bit, engine, before, installs, scan, threads>>

RemoveAllHooks ==
    /\ engine = "running"
    /\ \E envs \in ProtectAnswersAll :
       \E r \in {HM_RemoveAllHooks(HookState, envs)} :
              /\ SetHookState(r.s)
              /\ lastOp' = [NoOp EXCEPT !.op = "removeall", !.ret = r.ret,
                                        !.all = before, !.attempts = r.attempts]
              /\ before' = [t \in {x \in DOMAIN before : DL_IsHooked(r.s.trampolines, x)}
                               |-> before[t]]
    /\ UNCHANGED <<is64Bit, engine, installs, scan, threads>>

CleanupEngine ==
    /\ engine = "running"
    /\ \E envs1 \in ProtectAnswersAll :
       \E envs2 \in {e \in ProtectAnswersAll : \A n \in Names : envs1[n].vpOk => e[n].vpOk} :
       \E r \in {CleanupEngine_Hooks(HookState, envs1, envs2)} :
              /\ SetHookState(r.s)
              /\ lastOp' = [NoOp EXCEPT !.op = "shutdown", !.ret = r.ret,
                                        !.all = before, !.attempts = r.attempts]
    /\ engine' = "stopped"
    /\ UNCHANGED <<is64Bit, before, installs, scan, threads>>

\* CommandRouter's handlers of hook.install, hook.remove and hook.toggle:
\* the response CreateResponse(false, "", error, id) whatever the parameters.
HandleHookInstall(params) == [success |-> FALSE, error |-> "Hook functionality not implemented yet"]
HandleHookRemove(params) == [success |-> FALSE, error |-> "Hook functionality not implemented yet"]
HandleHookToggle(params) == [success |-> FALSE, error |-> "Hook functionality not implemented yet"]

\* A client sends hook.install with a name, a target, a detour and a type.
HookInstallCommand ==
    /\ engine = "running"
    /\ \E q \in HookRequests : \E r \in {HandleHookInstall(q)} :
          lastOp' = [NoOp EXCEPT !.op = "hook.install", !.name = q.name,
                                 !.target = q.target, !.ret = r.success,
                                 !.fresh = (q.name \notin DOMAIN hooks
                                            /\ q.target \notin DOMAIN addressToName)]
    /\ UNCHANGED <<is64Bit, mem, prot, trampolines, hooks, addressToName, engine,
                   before, installs, scan, threads>>

\* A client sends hook.remove with a name.
HookRemoveCommand ==
    /\ engine = "running"
    /\ \E name \in Names : \E r \in {HandleHookRemove(name)} :
          lastOp' = [NoOp EXCEPT !.op = "hook.remove", !.name = name,
                                 !.target = TargetOf(name), !.ret = r.success,
                                 !.pre = HistoryOf(TargetOf(name))]
    /\ UNCHANGED <<is64Bit, mem, prot, trampolines, hooks, addressToName, engine,
                   before, installs, scan, threads>>

\* A client sends hook.toggle with a name.
HookToggleCommand ==
    /\ engine = "running"
    /\ \E name \in Names : \E r \in {HandleHookToggle(name)} :
          lastOp' = [NoOp EXCEPT !.op = "hook.toggle", !.name = name,
                                 !.target = TargetOf(name), !.ret = r.success,
                                 !.wasActive = (name \in DOMAIN hooks /\ hooks[name].isActive)]
    /\ UNCHANGED <<is64Bit, mem, prot, trampolines, hooks, addressToName, engine,
                   before, installs, scan, threads>>

\* A caller inside the process looks up a virtual function of an object.
VTableLookup ==
    /\ engine = "running"
    /\ \E objectPtr \in ObjectPtrs : \E r \in {GetVTableFunction(HookState, objectPtr, 0)} :
          /\ lastOp' = [NoOp EXCEPT !.op = "vtable", !.target = objectPtr,
                                    !.ret = (r.kind = "returned" /\ r.value # W(0))]
          /\ engine' = IF r.kind = "fault" THEN "crashed" ELSE engine
    /\ UNCHANGED <<is64Bit, mem, prot, trampolines, hooks, addressToName, before,
                   installs, scan, threads>>

Next ==
    \/ InstallHook
    \/ VTableLookup
    \/ HookInstallCommand
    \/ HookRemoveCommand
    \/ HookToggleCommand
    \/ RemoveHook
    \/ EnableHook
    \/ DisableHook
    \/ ToggleHook
    \/ RemoveAllHooks
    \/ CleanupEngine

Spec == InitHooks /\ [][Next]_vars

-----------------------------------------------------------------------------
(* Properties of the hook subsystem.                                        *)

\* The bytes now at a target, over the length of its saved prologue.
PrologueAt(target, h) == PeekN(mem, target, Len(h.bytes))

\* C1: a hook that an install, enable, disable or toggle has just succeeded
\* on is in the registry in exactly one of two states: flagged active with
\* its target holding the hook bytes the install wrote (the jump, then 0x90 up
\* to the prologue length), or flagged inactive with its target holding the
\* saved original prologue; so after disable and enable the target holds the
\* bytes it held right after the install.
C1_ActiveXorRestored ==
    (lastOp.op \in {"install", "enable", "disable", "toggle"} /\ lastOp.ret) =>
        LET n == lastOp.name
            t == lastOp.target
            i == FindTrampoline(trampolines, t)
            h == HistoryOf(t)
        IN  /\ n \in DOMAIN hooks
            /\ hooks[n].targetAddress = t
            /\ i # 0
            /\ hooks[n].isActive = trampolines[i].isActive
            /\ IF hooks[n].isActive
               THEN PrologueAt(t, h) = h.hooked
               ELSE PrologueAt(t, h) = SubSeq(trampolines[i].originalBytes, 1,
                                              trampolines[i].originalSize)

\* C2: after a successful remove of a hook, the prologue bytes at its target
\* equal the bytes that were there before its install, the trampoline region
\* of that install is released, the registry holds neither its name nor its
\* address, and is_hooked(target) is false; whether or not the hook was
\* disabled and enabled in between.
C2_HookReversibility ==
    (lastOp.op = "remove" /\ lastOp.ret) =>
        /\ lastOp.pre.bytes # <<>>
        /\ PrologueAt(lastOp.target, lastOp.pre) = lastOp.pre.bytes
        /\ mem[lastOp.pre.slot] = <<>>
        /\ prot[lastOp.pre.slot] = "PAGE_NOACCESS"
        /\ lastOp.name \notin DOMAIN hooks
        /\ lastOp.target \notin DOMAIN addressToName
        /\ ~DL_IsHooked(trampolines, lastOp.target)

\* C2 happens: a remove succeeded on a hook that had been disabled and enabled
\* again (flagged active while its target held the restored bytes).
C2_Witness ==
    /\ lastOp.op = "remove" /\ lastOp.ret
    /\ lastOp.wasActive /\ lastOp.wasRestored

\* C3: hook names are unique, target addresses are unique, and the name map
\* and the address map describe the same hooks.
C3_RegistryMapsAgree ==
    /\ \A n \in DOMAIN hooks : hooks[n].name = n
    /\ \A n1, n2 \in DOMAIN hooks :
          hooks[n1].targetAddress = hooks[n2].targetAddress => n1 = n2
    /\ \A n \in DOMAIN hooks :
          /\ hooks[n].targetAddress \in DOMAIN addressToName
          /\ addressToName[hooks[n].targetAddress] = n
    /\ \A t \in DOMAIN addressToName :
          /\ addressToName[t] \in DOMAIN hooks
          /\ hooks[addressToName[t]].targetAddress = t

\* C3 happens: two hooks are registered and an install under a free name was
\* just refused because its target is already hooked by the other name, or a
\* remove just took one of two hooks out.
C3_Witness ==
    \/ /\ lastOp.op = "install" /\ ~lastOp.ret
       /\ lastOp.name \notin DOMAIN hooks
       /\ lastOp.target \in DOMAIN addressToName
    \/ /\ lastOp.op = "remove" /\ lastOp.ret
       /\ Cardinality(DOMAIN hooks) = 1 /\ Cardinality(DOMAIN addressToName) = 1

\* C10: when shutdown has returned the registry is empty, every target that
\* was hooked holds the prologue of the unhooked program, no trampoline
\* region is live, every hook that was present was attempted, and the
\* remove-all result is true exactly when every removal succeeded.
C10_ShutdownRemovesAll ==
    lastOp.op = "shutdown" =>
        /\ hooks = EmptyMap /\ addressToName = EmptyMap
        /\ \A t \in DOMAIN lastOp.all :
              PrologueAt(t, lastOp.all[t]) = PeekN(InitMem, t, Len(lastOp.all[t].bytes))
        /\ trampolines = <<>>
        /\ \A slot \in TrampSlots : mem[slot] = <<>>
        /\ {lastOp.attempts[i].name : i \in DOMAIN lastOp.attempts}
             = {lastOp.all[t].name : t \in DOMAIN lastOp.all}
        /\ lastOp.ret = (\A i \in DOMAIN lastOp.attempts : lastOp.attempts[i].ret)

-----------------------------------------------------------------------------
(* The safe memory access layer (MemoryEngine.cpp, MemoryEngine.hpp), on a   *)
(* host h = [mem, prot].                                                     *)

\* Addresses with the top bit set belong to the kernel: VirtualQuery fails.
IsKernelAddress(address) == address[Len(address)] >= 32768

RegionState(h, r) ==
    IF r = "none" THEN "MEM_FREE"
    ELSE IF r = "rsv" THEN "MEM_RESERVE"
    ELSE "MEM_COMMIT"

\* VirtualQuery: the MEMORY_BASIC_INFORMATION of the region holding address.
VirtualQuery(h, address) ==
    LET r == RegionOf(h.mem, address)
    IN  IF IsKernelAddress(address)
        THEN [ok |-> FALSE, State |-> "MEM_FREE", Protect |-> "0",
              BaseAddress |-> address, RegionSize |-> W(0)]
        ELSE IF r = "none"
        THEN [ok |-> TRUE, State |-> "MEM_FREE", Protect |-> "PAGE_NOACCESS",
              BaseAddress |-> address, RegionSize |-> W(1)]
        ELSE [ok |-> TRUE, State |-> RegionState(h, r),
              Protect |-> IF r = "rsv" THEN "0" ELSE h.prot[r],
              BaseAddress |-> RegionBase(r), RegionSize |-> W(Len(h.mem[r]))]

IsAddressValid(h, address, size) ==
    LET mbi == VirtualQuery(h, address)
        endAddress == WSub(WAdd(address, size), W(1))
        regionEnd  == WSub(WAdd(mbi.BaseAddress, mbi.RegionSize), W(1))
    IN  IF address = W(0) THEN FALSE
        ELSE IF ~mbi.ok THEN FALSE
        ELSE IF mbi.State # "MEM_COMMIT" THEN FALSE
        ELSE WLe(endAddress, regionEnd)

ReadableProtections ==
    {"PAGE_READONLY", "PAGE_READWRITE", "PAGE_EXECUTE_READ", "PAGE_EXECUTE_READWRITE",
     "PAGE_WRITECOPY", "PAGE_EXECUTE_WRITECOPY"}

WritableProtections ==
    {"PAGE_READWRITE", "PAGE_EXECUTE_READWRITE", "PAGE_WRITECOPY", "PAGE_EXECUTE_WRITECOPY"}

IsAddressReadable(h, address, size) ==
    IF ~IsAddressValid(h, address, size) THEN FALSE
    ELSE VirtualQuery(h, address).Protect \in ReadableProtections

IsAddressWritable(h, address, size) ==
    IF ~IsAddressValid(h, address, size) THEN FALSE
    ELSE VirtualQuery(h, address).Protect \in WritableProtections

\* std::vector<uint8_t>::resize(size): beyond max_size (PTRDIFF_MAX) it throws
\* std::length_error, and no heap supplies a block of 2^31 bytes or more here
\* (std::bad_alloc).
ResizeThrows(size) == ~WIsSmall(size)

\* Whether the n bytes at address all lie in one committed region whose
\* protection is in prots (a raw access to anything else faults).
RangeAccessible(h, address, n, prots) ==
    LET r == RegionOf(h.mem, address)
    IN  \/ n = 0
        \/ /\ r # "none"
           /\ RegionState(h, r) = "MEM_COMMIT"
           /\ h.prot[r] \in prots
           /\ OffsetIn(r, address) + n <= Len(h.mem[r])

\* env.fault: the protection changed between the check and the copy.
SafeReadBytes(h, address, size, env) ==
    IF ~IsAddressReadable(h, address, size)
    THEN [kind |-> "returned", bytes |-> <<>>]
    ELSE IF ResizeThrows(size)
    THEN [kind |-> "exception", bytes |-> <<>>]
    ELSE IF env.fault \/ ~RangeAccessible(h, address, WToNat(size), ReadableProtections)
    THEN [kind |-> "returned", bytes |-> <<>>]
    ELSE [kind |-> "returned", bytes |-> PeekN(h.mem, address, WToNat(size))]

\* VirtualProtect over the pages of [address, address+size): it fails on
\* memory that is not committed, and otherwise as the host decides (ok).
VirtualProtect(h, address, size, newProtect, ok) ==
    LET r == RegionOf(h.mem, address)
    IN  IF r = "none" \/ RegionState(h, r) # "MEM_COMMIT" \/ ~ok
        THEN [ok |-> FALSE, h |-> h, oldProtect |-> "0"]
        ELSE [ok |-> TRUE, h |-> [h EXCEPT !.prot[r] = newProtect],
              oldProtect |-> h.prot[r]]

\* env.vp1Ok, env.vp2Ok: what the two VirtualProtect calls answer;
\* env.copied: how many bytes memcpy stores before it faults (all of them:
\* no fault).
SafeWriteMemory(h, address, data, env) ==
    LET size == W(Len(data))
        vp1  == VirtualProtect(h, address, size, "PAGE_EXECUTE_READWRITE", env.vp1Ok)
        part == [vp1.h EXCEPT !.mem = Poke(@, address, SubSeq(data, 1, env.copied))]
        full == [vp1.h EXCEPT !.mem = Poke(@, address, data)]
        vp2  == VirtualProtect(full, address, size, vp1.oldProtect, env.vp2Ok)
    IN  IF ~vp1.ok THEN [h |-> h, ret |-> FALSE]
        ELSE IF env.copied < Len(data) THEN [h |-> part, ret |-> FALSE]
        ELSE [h |-> vp2.h, ret |-> TRUE]

SafeWriteBytes(h, address, bytes, env) ==
    IF bytes = <<>> \/ ~IsAddressValid(h, address, W(Len(bytes)))
    THEN [h |-> h, ret |-> FALSE]
    ELSE SafeWriteMemory(h, address, bytes, env)

\* SafeWrite<T>: value is the sizeof(T) bytes of the object; its guarded block
\* is the one of SafeWriteMemory.
SafeWrite(h, address, value, env) ==
    IF ~IsAddressWritable(h, address, W(Len(value)))
    THEN [h |-> h, ret |-> FALSE]
    ELSE SafeWriteMemory(h, address, value, env)

-----------------------------------------------------------------------------
(* The access layer as a state machine: clients read and write the host's    *)
(* memory through SafeReadBytes, SafeWriteBytes and SafeWrite<T>.            *)

Host == [mem |-> mem, prot |-> prot]

AllOnes == WSub(W(0), W(1))                                      \* 2^width - 1

\* The addresses the clients read: null, inside and at the last byte of the
\* read/write region, the read-only, no-access and reserved regions, a free
\* address and a kernel address.
ReadAddresses ==
    {W(0), WPlus(RegionBase("data"), 2), WPlus(RegionBase("data"), 3), RegionBase("ro"),
     RegionBase("na"), RegionBase("rsv"), Wd(0, 224, 0, 0), WSub(W(0), W(4))}

\* The lengths they ask for: nothing, one byte, two bytes (one more than is
\* left at a last byte), and 2^width - 1, for which address + length wraps.
ReadSizes == {W(0), W(1), W(2), AllOnes}

\* The write_bytes calls, address and payload: an empty payload, a payload
\* that ends with its region, one that is a byte too long, and writes to the
\* read-only and the reserved region.
WriteRequests ==
    {[address |-> RegionBase("data"), bytes |-> <<>>],
     [address |-> WPlus(RegionBase("data"), 2), bytes |-> <<7, 9>>],
     [address |-> WPlus(RegionBase("data"), 3), bytes |-> <<7, 9>>],
     [address |-> RegionBase("ro"), bytes |-> <<7>>],
     [address |-> RegionBase("rsv"), bytes |-> <<7>>]}

\* The SafeWrite<uint16_t> calls: address and the bytes of the value.
ValueRequests ==
    {[address |-> WPlus(RegionBase("data"), 2), bytes |-> <<7, 9>>],
     [address |-> WPlus(RegionBase("data"), 3), bytes |-> <<7, 9>>],
     [address |-> RegionBase("ro"), bytes |-> <<7, 9>>]}

\* What the host may answer to a write that reaches SafeWriteMemory with n
\* bytes: each answer is asked for only if the call gets that far.
WriteAnswers(n) ==
    {e \in [vp1Ok : BOOLEAN, copied : 0..n, vp2Ok : BOOLEAN] :
        /\ ~e.vp1Ok => e.copied = n
        /\ (~e.vp1Ok \/ e.copied < n) => e.vp2Ok}

NoAnswers(n) == {[vp1Ok |-> TRUE, copied |-> n, vp2Ok |-> TRUE]}

\* Whether every byte outside [address, address + n) is in h2 what it is in
\* h1.
OutsideUnchanged(h1, h2, address, n) ==
    LET r0  == RegionOf(h1.mem, address)
        off == IF r0 = "none" THEN 0 ELSE OffsetIn(r0, address)
        old == h1.mem[r0]
        new == h2.mem[r0]
    IN  /\ \A r \in Regions \ {r0} : h2.mem[r] = h1.mem[r]
        /\ r0 # "none" =>
              /\ Len(new) = Len(old)
              /\ SubSeq(new, 1, off) = SubSeq(old, 1, off)
              /\ SubSeq(new, off + n + 1, Len(new)) = SubSeq(old, off + n + 1, Len(old))

\* Whether [address, address + n) lies inside the region holding address.
Fits(h, address, n) ==
    LET r == RegionOf(h.mem, address)
    IN  r # "none" /\ OffsetIn(r, address) + n <= Len(h.mem[r])

\* lastOp of the access layer: the call, its result, and what held when it
\* was made.
MemOp(op, address, size, bytes) ==
    [op |-> op, address |-> address, size |-> size, bytes |-> bytes,
     result |-> [kind |-> "returned", bytes |-> <<>>], ret |-> FALSE,
     region |-> RegionOf(mem, address),
     protBefore |-> IF RegionOf(mem, address) = "none" THEN "0"
                    ELSE prot[RegionOf(mem, address)],
     fits |-> Fits(Host, address, Len(bytes)),
     elevateFailed |-> FALSE, faulted |-> FALSE, restoreFailed |-> FALSE,
     outsideUnchanged |-> TRUE]

InitAccess ==
    /\ is64Bit \in BOOLEAN
    /\ mem = InitMem
    /\ prot = InitProt
    /\ trampolines = <<>>
    /\ hooks = EmptyMap
    /\ addressToName = EmptyMap
    /\ engine = "running"
    /\ lastOp = MemOp("none", W(0), W(0), <<>>)
    /\ before = EmptyMap
    /\ installs = 0
    /\ scan = NoScan
    /\ threads = NoThreads

ReadBytes ==
    /\ \E address \in ReadAddresses, size \in ReadSizes :
       \E fault \in (IF IsAddressReadable(Host, address, size) /\ ~ResizeThrows(size)
                     THEN BOOLEAN ELSE {FALSE}) :
          lastOp' = [MemOp("read", address, size, <<>>) EXCEPT
                        !.result = SafeReadBytes(Host, address, size, [fault |-> fault]),
                        !.faulted = fault]
    /\ UNCHANGED <<is64Bit, mem, prot, trampolines, hooks, addressToName, engine,
                   before, installs, scan, threads>>

\* A write call through `write`, SafeWriteBytes or SafeWrite, whose gate is
\* `reaches`.
WriteCall(op, q, write(_, _, _, _), reaches) ==
    \E env \in (IF reaches THEN WriteAnswers(Len(q.bytes)) ELSE NoAnswers(Len(q.bytes))) :
        LET r == write(Host, q.address, q.bytes, env)
        IN  /\ mem' = r.h.mem
            /\ prot' = r.h.prot
            /\ lastOp' = [MemOp(op, q.address, W(Len(q.bytes)), q.bytes) EXCEPT
                             !.ret = r.ret,
                             !.elevateFailed = ~env.vp1Ok,
                             !.faulted = (env.copied < Len(q.bytes)),
                             !.restoreFailed = ~env.vp2Ok,
                             !.outsideUnchanged =
                                 OutsideUnchanged(Host, r.h, q.address, Len(q.bytes))]

WriteBytes ==
    /\ \E q \in WriteRequests :
          WriteCall("write", q, SafeWriteBytes,
                    q.bytes # <<>> /\ IsAddressValid(Host, q.address, W(Len(q.bytes))))
    /\ UNCHANGED <<is64Bit, trampolines, hooks, addressToName, engine, before, installs,
                   scan, threads>>

WriteValue ==
    /\ \E q \in ValueRequests :
          WriteCall("writeT", q, SafeWrite,
                    IsAddressWritable(Host, q.address, W(Len(q.bytes))))
    /\ UNCHANGED <<is64Bit, trampolines, hooks, addressToName, engine, before, installs,
                   scan, threads>>

NextAccess ==
    \/ ReadBytes
    \/ WriteBytes
    \/ WriteValue

SpecAccess == InitAccess /\ [][NextAccess]_vars

-----------------------------------------------------------------------------
(* Properties of the access layer.                                           *)

\* What the host says of the region a call addressed.
Committed(r) == r # "none" /\ RegionState(Host, r) = "MEM_COMMIT"

\* C4: read_bytes(A, L) returns either exactly L bytes or nothing, for every
\* A and L of the pointer width, and it returns nothing whenever the region
\* holding A is not committed, is not readable, or does not hold the whole of
\* [A, A+L).
C4_ReadSafety ==
    lastOp.op = "read" =>
        /\ lastOp.result.kind = "returned"
        /\ \/ lastOp.result.bytes = <<>>
           \/ WIsSmall(lastOp.size) /\ Len(lastOp.result.bytes) = WToNat(lastOp.size)
        /\ (\/ ~Committed(lastOp.region)
            \/ lastOp.protBefore \notin ReadableProtections
            \/ ~WIsSmall(lastOp.size)
            \/ ~Fits(Host, lastOp.address, WToNat(lastOp.size)))
           => lastOp.result.bytes = <<>>

\* C5: write_bytes(A, P) with A in a committed writable region that holds
\* the whole of [A, A+|P|) returns true, a read_bytes(A, |P|) right after it
\* returns P, and no byte outside [A, A+|P|) has changed.
C5_WriteRoundtrip ==
    (/\ lastOp.op = "write"
     /\ Committed(lastOp.region)
     /\ lastOp.protBefore \in WritableProtections
     /\ lastOp.fits) =>
        /\ lastOp.ret
        /\ SafeReadBytes(Host, lastOp.address, lastOp.size, [fault |-> FALSE])
             = [kind |-> "returned", bytes |-> lastOp.bytes]
        /\ lastOp.outsideUnchanged

\* C6: a write to a committed region without write permission leaves the
\* region's protection as it was before the call, whether it returns true or
\* false, and returns false if the elevating or the restoring protection
\* change failed.
C6_ProtectionRespect ==
    (/\ lastOp.op \in {"write", "writeT"}
     /\ Committed(lastOp.region)
     /\ lastOp.protBefore \notin WritableProtections) =>
        /\ prot[lastOp.region] = lastOp.protBefore
        /\ (lastOp.elevateFailed \/ lastOp.restoreFailed) => ~lastOp.ret


-----------------------------------------------------------------------------
(* Properties of the trampolines.                                            *)

\* Where the processor goes on a rel32 branch whose instruction occupies
\* `length` bytes at `address`: the address after the instruction plus the
\* sign-extended displacement, in pointer width.
BranchTarget(address, length, rel32) == WAdd(WPlus(address, length), SignExtend32(rel32))

\* The bytes of the trampoline region of a trampoline entry.
TrampolineBytes(t) == mem[RegionOf(mem, t.trampolineAddress)]

\* C11: for every installed hook the jump written at trampoline_address +
\* prologue_length is a JMP rel32 that transfers control exactly to
\* target_address + prologue_length.
C11_TrampolineJumpsBack ==
    \A i \in DOMAIN trampolines :
        LET t == trampolines[i]
            n == t.originalSize
        IN  /\ TrampolineBytes(t)[n + 1] = 233
            /\ BranchTarget(WPlus(t.trampolineAddress, n), 5,
                            SubSeq(TrampolineBytes(t), n + 2, n + 5))
                 = WPlus(t.originalFunction, n)

\* The claim on hosts where every trampoline lies within 2^31 bytes of its
\* target (the 32-bit host, and the near region on the 64-bit host).
C11_NearTrampolines ==
    \A i \in DOMAIN trampolines :
        (~is64Bit \/ RegionOf(mem, trampolines[i].trampolineAddress) = "tNear") =>
            BranchTarget(WPlus(trampolines[i].trampolineAddress, trampolines[i].originalSize),
                         5,
                         SubSeq(TrampolineBytes(trampolines[i]),
                                trampolines[i].originalSize + 2,
                                trampolines[i].originalSize + 5))
              = WPlus(trampolines[i].originalFunction, trampolines[i].originalSize)


\* Whether a rel32 branch starts at offset k of bytes: CALL/JMP rel32 (E8,
\* E9) or a conditional near jump (0F 8x); and the length of that branch.
IsRel32Branch(bytes, k) ==
    \/ At(bytes, k, 0) \in {232, 233}
    \/ At(bytes, k, 0) = 15 /\ At(bytes, k, 1) \div 16 = 8

BranchLength(bytes, k) == IF At(bytes, k, 0) \in {232, 233} THEN 5 ELSE 6

\* The offsets below n at which a rel32 branch starts, walking the
\* instructions of bytes from offset k.
RECURSIVE BranchOffsets(_, _, _)
BranchOffsets(bytes, k, n) ==
    IF k >= n THEN {}
    ELSE IF IsRel32Branch(bytes, k)
    THEN {k} \cup BranchOffsets(bytes, k + BranchLength(bytes, k), n)
    ELSE IF GetLength(bytes, k) = 0 THEN {}
    ELSE BranchOffsets(bytes, k + GetLength(bytes, k), n)

\* The displacement of the branch at offset k of bytes.
Rel32At(bytes, k) ==
    SubSeq(bytes, k + BranchLength(bytes, k) - 3, k + BranchLength(bytes, k))

\* The offset in the code region of the target of a trampoline entry, and
\* whether the prologue it saved is the code of the unhooked program.
TargetOffset(t) == OffsetIn(CodeRegion, t.originalFunction)

SavedProgramCode(t) ==
    t.originalBytes = SubSeq(CodeBytes, TargetOffset(t) + 1, TargetOffset(t) + t.originalSize)

\* The rel32 branches of the program that start inside the saved prologue of
\* a trampoline entry, as offsets into the code region.
CopiedBranches(t) ==
    BranchOffsets(CodeBytes, TargetOffset(t), TargetOffset(t) + t.originalSize)

\* The branch at offset k of the code region goes, from the trampoline, where
\* it goes in the program.
SameTarget(t, k) ==
    BranchTarget(WPlus(t.trampolineAddress, k - TargetOffset(t)), BranchLength(CodeBytes, k),
                 SubSeq(TrampolineBytes(t),
                        k - TargetOffset(t) + BranchLength(CodeBytes, k) - 3,
                        k - TargetOffset(t) + BranchLength(CodeBytes, k)))
      = BranchTarget(WPlus(RegionBase(CodeRegion), k), BranchLength(CodeBytes, k),
                     Rel32At(CodeBytes, k))

\* C20: every rel32 branch of the program that an install copied from
\* target + k to trampoline_base + k transfers control from the trampoline to
\* the same absolute address as the original instruction did.
C20_RelocationPreservesTargets ==
    \A i \in DOMAIN trampolines :
        SavedProgramCode(trampolines[i]) =>
            \A k \in CopiedBranches(trampolines[i]) : SameTarget(trampolines[i], k)

\* The same for the branches that lie wholly inside the saved prologue of a
\* trampoline within 2^31 bytes of its target.
C20_NearRelocation ==
    \A i \in DOMAIN trampolines :
        (/\ SavedProgramCode(trampolines[i])
         /\ ~is64Bit \/ RegionOf(mem, trampolines[i].trampolineAddress) = "tNear") =>
            \A k \in CopiedBranches(trampolines[i]) :
                k + BranchLength(CodeBytes, k)
                    <= TargetOffset(trampolines[i]) + trampolines[i].originalSize
                  => SameTarget(trampolines[i], k)

-----------------------------------------------------------------------------
(* Guarded access.                                                           *)

\* C12: every read or write of host memory by any component is preceded by
\* a protection check of the region of the address, so no operation of the
\* detour engine or of the vtable helper touches memory the check would
\* refuse: none of them raises an access violation in the host.
C12_AccessesChecked == engine # "crashed"

-----------------------------------------------------------------------------
(* Failed installs.                                                          *)

\* An install that returned failure has just completed.
InstallFailed == lastOp'.op = "install" /\ ~lastOp'.ret /\ engine' = "running"

\* C19: a failed install is atomic: whenever install returns failure, the
\* registry maps, the trampoline list, the bytes at the target address (and
\* everywhere else) and the live trampoline allocations are the same as
\* before the call.
C19_FailedInstallAtomic ==
    [][InstallFailed => /\ hooks' = hooks
                        /\ addressToName' = addressToName
                        /\ trampolines' = trampolines
                        /\ mem' = mem]_vars

\* An install has failed while a hook was registered and a trampoline live.
C19_Witness ==
    /\ lastOp.op = "install" /\ ~lastOp.ret /\ engine = "running"
    /\ hooks # <<>> /\ trampolines # <<>>

-----------------------------------------------------------------------------
(* The hook commands.                                                        *)

\* C15: the command surface drives the hook engine: hook.install with a
\* fresh name and a valid, unhooked target returns success and leaves the
\* target hooked; hook.remove of a registered name returns success and
\* unregisters it; hook.toggle of a registered name returns success and flips
\* the hook's active state.
C15_CommandsDriveHooks ==
    /\ (lastOp.op = "hook.install" /\ lastOp.fresh /\ RegionOf(mem, lastOp.target) = CodeRegion)
         => /\ lastOp.ret
            /\ DL_IsHooked(trampolines, lastOp.target)
            /\ lastOp.name \in DOMAIN hooks
    /\ (lastOp.op = "hook.remove" /\ lastOp.target # <<>>)
         => /\ lastOp.ret
            /\ lastOp.name \notin DOMAIN hooks
            /\ PrologueAt(lastOp.target, lastOp.pre) = lastOp.pre.bytes
    /\ (lastOp.op = "hook.toggle" /\ lastOp.target # <<>>)
         => /\ lastOp.ret
            /\ hooks[lastOp.name].isActive # lastOp.wasActive

-----------------------------------------------------------------------------
(* Text.  A string is the sequence of its characters; a pattern is the       *)
(* sequence of its whitespace-separated tokens, as `iss >> byte` yields them.*)

HexChars == <<"0", "1", "2", "3", "4", "5", "6", "7", "8", "9", "A", "B", "C", "D", "E", "F">>
HexCharsLower == <<"0", "1", "2", "3", "4", "5", "6", "7", "8", "9", "a", "b", "c", "d", "e", "f">>

\* The value of a hexadecimal digit, -1 for any other character.
HexValue(c) ==
    IF \E i \in 1..16 : HexChars[i] = c THEN (CHOOSE i \in 1..16 : HexChars[i] = c) - 1
    ELSE IF \E i \in 1..16 : HexCharsLower[i] = c
    THEN (CHOOSE i \in 1..16 : HexCharsLower[i] = c) - 1
    ELSE -1

\* The digits std::stoul consumes from position k on: the longest run of
\* hexadecimal digits.
RECURSIVE StoulFrom(_, _, _)
StoulFrom(str, k, acc) ==
    IF k > Len(str) \/ HexValue(str[k]) < 0 THEN acc
    ELSE StoulFrom(str, k + 1, acc * 16 + HexValue(str[k]))

\* std::stoul(str, nullptr, 16) of a token without sign or 0x prefix: it
\* throws std::invalid_argument when the token does not start with a digit.
Stoul16(str) ==
    IF str = <<>> \/ HexValue(str[1]) < 0 THEN [ok |-> FALSE, value |-> 0]
    ELSE [ok |-> TRUE, value |-> StoulFrom(str, 1, 0)]

IsWildcard(token) == token = <<"?">> \/ token = <<"?", "?">>

\* PatternToBytes: a wildcard becomes 0, any other token the low byte of its
\* value; ok is FALSE when std::stoul throws.
RECURSIVE PatternToBytes(_)
PatternToBytes(pattern) ==
    IF pattern = <<>> THEN [ok |-> TRUE, bytes |-> <<>>]
    ELSE LET rest(first, r) ==
                 IF ~first.ok \/ ~r.ok THEN [ok |-> FALSE, bytes |-> <<>>]
                 ELSE [ok |-> TRUE, bytes |-> <<first.value % 256>> \o r.bytes]
         IN  IF IsWildcard(Head(pattern))
             THEN (CHOOSE out \in {rest(a1, a2) : a1 \in {[ok |-> TRUE, value |-> 0]}, a2 \in {PatternToBytes(Tail(pattern))}} : TRUE)
             ELSE (CHOOSE out \in {rest(a1, a2) : a1 \in {Stoul16(Head(pattern))}, a2 \in {PatternToBytes(Tail(pattern))}} : TRUE)

\* The mask AOBScanAll builds: '?' for a wildcard token, 'x' for any other.
AOBMask(pattern) == [i \in 1..Len(pattern) |-> IF IsWildcard(pattern[i]) THEN "?" ELSE "x"]

-----------------------------------------------------------------------------
(* Pattern scanning (MemoryEngine.cpp).                                      *)

\* The regions in the order of their addresses, as VirtualQuery walks them.
RegionOrder == <<"code", "tNear", "data", "ro", "na", "rsv", "tFar">>

\* GetMemoryRegions: the committed regions, lowest address first.
GetMemoryRegions(h) ==
    SelectSeq(RegionOrder, LAMBDA r : Len(h.mem[r]) > 0 /\ RegionState(h, r) = "MEM_COMMIT")

WMax(a, b) == IF WLt(a, b) THEN b ELSE a
WMin(a, b) == IF WLt(a, b) THEN a ELSE b

\* GetModuleBase() and GetModuleSize() of the host's main module.
GetModuleBase == RegionBase(CodeRegion)
GetModuleSize == Len(InitMem[CodeRegion])

\* ComparePattern(data + i, pattern, mask) for a window inside data.
ComparePattern(data, i, pattern, mask) ==
    \A j \in 1..Len(mask) : mask[j] = "x" => data[i + j] = pattern[j]

\* The offsets the loop `for (i = 0; i <= data.size() - pattern.length(); i++)`
\* reports when the pattern is not longer than the data.
WindowMatches(data, pattern, mask) ==
    SelectSeq([k \in 1..(Len(data) - Len(pattern) + 1) |-> k - 1],
              LAMBDA i : ComparePattern(data, i, pattern, mask))

\* The body of the loop over the regions for one region.  When the data is
\* shorter than the pattern, data.size() - pattern.length() wraps around (it
\* is a size_t) and the loop compares bytes beyond the buffer: undefined
\* behaviour, which either faults (env.ub = "fault") or reports the start of
\* the data as a match (env.ub = "stray").
ScanOneRegion(h, r, pattern, mask, start, end, env) ==
    LET found(regionStart, offsets) ==
            [kind |-> "returned",
             addrs |-> [k \in 1..Len(offsets) |-> WPlus(regionStart, offsets[k])]]
        hits(regionStart, data) ==
            IF data.kind # "returned" \/ data.bytes = <<>> THEN [kind |-> "returned", addrs |-> <<>>]
            ELSE IF Len(data.bytes) < Len(pattern)
            THEN (IF env.ub = "fault" THEN [kind |-> "fault", addrs |-> <<>>]
                  ELSE [kind |-> "returned", addrs |-> <<regionStart>>])
            ELSE (CHOOSE out \in {found(a1, a2) : a1 \in {regionStart}, a2 \in {WindowMatches(data.bytes, pattern, mask)}} : TRUE)
        clip(regionStart, regionEnd) ==
            IF ~WLt(regionStart, regionEnd) THEN [kind |-> "returned", addrs |-> <<>>]
            ELSE (CHOOSE out \in {hits(a1, a2) : a1 \in {regionStart}, a2 \in {SafeReadBytes(h, regionStart, WSub(regionEnd, regionStart), [fault |-> FALSE])}} : TRUE)
    IN  IF h.prot[r] \notin ReadableProtections THEN [kind |-> "returned", addrs |-> <<>>]
        ELSE (CHOOSE out \in {clip(a1, a2) : a1 \in {WMax(RegionBase(r), start)}, a2 \in {WMin(WPlus(RegionBase(r), Len(h.mem[r])), end)}} : TRUE)

RECURSIVE ScanRegionsFrom(_, _, _, _, _, _, _, _)
ScanRegionsFrom(h, regions, k, pattern, mask, start, end, env) ==
    IF k > Len(regions) THEN [kind |-> "returned", addrs |-> <<>>]
    ELSE LET join(here, rest) ==
                 IF here.kind = "fault" \/ rest.kind = "fault" THEN [kind |-> "fault", addrs |-> <<>>]
                 ELSE [kind |-> "returned", addrs |-> here.addrs \o rest.addrs]
         IN  (CHOOSE out \in {join(a1, a2) : a1 \in {ScanOneRegion(h, regions[k], pattern, mask, start, end, env)}, a2 \in {ScanRegionsFrom(h, regions, k + 1, pattern, mask, start, end, env)}} : TRUE)

PatternScanAll(h, pattern, mask, start, end, env) ==
    LET from(s, regions) ==
            ScanRegionsFrom(h, regions, 1, pattern, mask, s,
                            IF end = W(0) THEN WPlus(s, GetModuleSize) ELSE end, env)
    IN  (CHOOSE out \in {from(a1, a2) : a1 \in {IF start = W(0) THEN GetModuleBase ELSE start}, a2 \in {GetMemoryRegions(h)}} : TRUE)

\* AOBScanAll: kind "exception" when PatternToBytes throws.
AOBScanAll(h, pattern, start, end, env) ==
    LET masked(p) == IF ~p.ok THEN [kind |-> "exception", addrs |-> <<>>]
                     ELSE PatternScanAll(h, p.bytes, AOBMask(pattern), start, end, env)
    IN  (CHOOSE out \in {masked(a1) : a1 \in {PatternToBytes(pattern)}} : TRUE)

AOBScanFirst(h, pattern, start, end, env) ==
    LET first(r) == IF r.kind # "returned" \/ r.addrs = <<>> THEN r
                    ELSE [kind |-> "returned", addrs |-> <<r.addrs[1]>>]
    IN  (CHOOSE out \in {first(a1) : a1 \in {AOBScanAll(h, pattern, start, end, env)}} : TRUE)

\* The most addresses a pattern.scanall response lists.
MaxShown == 100

\* HandlePatternScanAll and HandlePatternScan: the response (success, the
\* addresses of its data), or the access violation that ends the call.
NoResponse == [kind |-> "response", success |-> FALSE, addrs |-> <<>>, found |-> 0]

HandlePatternScanAll(h, pattern, start, end, env) ==
    LET respond(r) ==
            IF r.kind = "fault" THEN [NoResponse EXCEPT !.kind = "fault"]
            ELSE IF r.kind = "exception" THEN NoResponse
            ELSE [NoResponse EXCEPT !.success = TRUE, !.found = Len(r.addrs),
                     !.addrs = SubSeq(r.addrs, 1, IF Len(r.addrs) < MaxShown THEN Len(r.addrs) ELSE MaxShown)]
    IN  IF pattern = <<>> THEN NoResponse
        ELSE (CHOOSE out \in {respond(a1) : a1 \in {AOBScanAll(h, pattern, start, end, env)}} : TRUE)

HandlePatternScan(h, pattern, start, end, env) ==
    LET respond(r) ==
            IF r.kind = "fault" THEN [NoResponse EXCEPT !.kind = "fault"]
            ELSE IF r.kind = "exception" \/ r.addrs = <<>> THEN NoResponse
            ELSE [NoResponse EXCEPT !.success = TRUE, !.found = 1, !.addrs = r.addrs]
    IN  IF pattern = <<>> THEN NoResponse
        ELSE (CHOOSE out \in {respond(a1) : a1 \in {AOBScanFirst(h, pattern, start, end, env)}} : TRUE)

-----------------------------------------------------------------------------
(* Pointer chains (MemoryEngine.cpp, CommandRouter.cpp).                     *)

WordSize == IF is64Bit THEN 8 ELSE 4

IsSpace(c) == c \in {" ", "\t"}

\* The hexadecimal digits std::stoull consumes from position k on.
RECURSIVE DigitRun(_, _)
DigitRun(str, k) ==
    IF k > Len(str) \/ HexValue(str[k]) < 0 THEN <<>>
    ELSE <<HexValue(str[k])>> \o DigitRun(str, k + 1)

RECURSIVE DropLeadingZeros(_)
DropLeadingZeros(ds) == IF ds # <<>> /\ Head(ds) = 0 THEN DropLeadingZeros(Tail(ds)) ELSE ds

\* The 16-bit limb that the four digits ds[k..k+3] of a 16-digit number denote.
Limb(ds, k) == ((ds[k] * 16 + ds[k + 1]) * 16 + ds[k + 2]) * 16 + ds[k + 3]

\* The word of a run of at most 16 significant digits, cut to the pointer
\* width (the conversion of the unsigned long long to uintptr_t).
DigitsWord(ds) ==
    LET padded(p) == Wd(Limb(p, 13), Limb(p, 9), Limb(p, 5), Limb(p, 1))
    IN  (CHOOSE out \in {padded(a1) : a1 \in {[i \in 1..(16 - Len(ds)) |-> 0] \o ds}} : TRUE)

\* std::stoull(str, nullptr, 16): leading white space and a 0x prefix are
\* skipped; it throws std::invalid_argument when no digit follows and
\* std::out_of_range when the value does not fit 64 bits.
RECURSIVE Stoull16(_)
Stoull16(str) ==
    LET significant(ds) ==
            IF Len(ds) > 16 THEN [ok |-> FALSE, value |-> <<>>]
            ELSE [ok |-> TRUE, value |-> DigitsWord(ds)]
        run(ds) ==
            IF ds = <<>> THEN [ok |-> FALSE, value |-> <<>>]
            ELSE (CHOOSE out \in {significant(a1) : a1 \in {DropLeadingZeros(ds)}} : TRUE)
        digits(k) == (CHOOSE out \in {run(a1) : a1 \in {DigitRun(str, k)}} : TRUE)
    IN  IF str # <<>> /\ (IsSpace(Head(str)) \/ Head(str) = "\n") THEN Stoull16(Tail(str))
        ELSE IF Len(str) >= 3 /\ str[1] = "0" /\ str[2] \in {"x", "X"} /\ HexValue(str[3]) >= 0
        THEN digits(3)
        ELSE digits(1)

\* `ss << std::hex << value`: the digits of a word, lowercase, without
\* leading zeros.
ToHex(a) ==
    LET nibble(i) == (a[Len(a) - ((i - 1) \div 4)] \div (CASE (i - 1) % 4 = 0 -> 4096
                                                           [] (i - 1) % 4 = 1 -> 256
                                                           [] (i - 1) % 4 = 2 -> 16
                                                           [] OTHER -> 1)) % 16
        shown(ds) == IF ds = <<>> THEN <<"0">> ELSE [i \in 1..Len(ds) |-> HexCharsLower[ds[i] + 1]]
    IN  (CHOOSE out \in {shown(a1) : a1 \in {DropLeadingZeros([i \in 1..(4 * Len(a)) |-> nibble(i)])}} : TRUE)

\* offset.erase(0, offset.find_first_not_of(" \t")) and
\* offset.erase(offset.find_last_not_of(" \t") + 1).
RECURSIVE TrimLeft(_)
TrimLeft(str) == IF str # <<>> /\ IsSpace(Head(str)) THEN TrimLeft(Tail(str)) ELSE str

RECURSIVE TrimRight(_)
TrimRight(str) ==
    IF str # <<>> /\ IsSpace(str[Len(str)]) THEN TrimRight(SubSeq(str, 1, Len(str) - 1)) ELSE str

\* The pieces std::getline(iss, offset, ',') yields: the text between the
\* commas, without a last empty piece.
RECURSIVE SplitComma(_, _)
SplitComma(str, piece) ==
    IF str = <<>> THEN (IF piece = <<>> THEN <<>> ELSE <<piece>>)
    ELSE IF Head(str) = "," THEN <<piece>> \o SplitComma(Tail(str), <<>>)
    ELSE SplitComma(Tail(str), Append(piece, Head(str)))

\* SafeRead<uintptr_t>: the word at an address, or nothing.
SafeReadWord(h, address) ==
    IF ~IsAddressReadable(h, address, W(WordSize)) THEN [ok |-> FALSE, value |-> W(0)]
    ELSE [ok |-> TRUE, value |-> BytesWord(PeekN(h.mem, address, WordSize))]

\* A FollowPointerChain that reads the word at every address it computes, the
\* last one too.
RECURSIVE FollowFrom_ReadLast(_, _, _, _, _)
FollowFrom_ReadLast(h, currentAddress, offsets, i, derefs) ==
    LET next(address) == FollowFrom_ReadLast(h, address, offsets, i + 1, Append(derefs, currentAddress))
        step(ptrValue) ==
            IF ~ptrValue.ok THEN [ok |-> FALSE, value |-> W(0), derefs |-> derefs]
            ELSE IF i > Len(offsets)
            THEN [ok |-> TRUE, value |-> currentAddress, derefs |-> Append(derefs, currentAddress)]
            ELSE (CHOOSE out \in {next(a1) : a1 \in {WAdd(ptrValue.value, offsets[i])}} : TRUE)
    IN  (CHOOSE out \in {step(a1) : a1 \in {SafeReadWord(h, currentAddress)}} : TRUE)

FollowPointerChain_ReadLast(h, baseAddress, offsets) ==
    LET from(address, derefs) == FollowFrom_ReadLast(h, address, offsets, 1, derefs)
    IN  (CHOOSE out \in {from(a1, a2) : a1 \in {baseAddress}, a2 \in {<<>>}} : TRUE)

\* FollowPointerChain from the i-th offset on; derefs: the addresses read.
RECURSIVE FollowFrom(_, _, _, _, _)
FollowFrom(h, currentAddress, offsets, i, derefs) ==
    LET next(address) ==
            IF i < Len(offsets) /\ ~IsAddressReadable(h, address, W(WordSize))
            THEN [ok |-> FALSE, value |-> W(0), derefs |-> Append(derefs, currentAddress)]
            ELSE FollowFrom(h, address, offsets, i + 1, Append(derefs, currentAddress))
        step(ptrValue) ==
            IF ~ptrValue.ok THEN [ok |-> FALSE, value |-> W(0), derefs |-> derefs]
            ELSE (CHOOSE out \in {next(a1) : a1 \in {WAdd(ptrValue.value, offsets[i])}} : TRUE)
    IN  IF i > Len(offsets) THEN [ok |-> TRUE, value |-> currentAddress, derefs |-> derefs]
        ELSE (CHOOSE out \in {step(a1) : a1 \in {SafeReadWord(h, currentAddress)}} : TRUE)

FollowPointerChain(h, baseAddress, offsets) ==
    LET from(address, derefs) == FollowFrom(h, address, offsets, 1, derefs)
    IN  (CHOOSE out \in {from(a1, a2) : a1 \in {baseAddress}, a2 \in {<<>>}} : TRUE)

\* The offsets HandlePointerChain parses from the text of the list: ok is
\* FALSE when std::stoull throws.
RECURSIVE ParseOffsets(_)
ParseOffsets(pieces) ==
    IF pieces = <<>> THEN [ok |-> TRUE, offsets |-> <<>>]
    ELSE LET add(first, rest) ==
                 IF ~first.ok \/ ~rest.ok THEN [ok |-> FALSE, offsets |-> <<>>]
                 ELSE [ok |-> TRUE, offsets |-> <<first.value>> \o rest.offsets]
             trimmed(offset) ==
                 IF offset = <<>> THEN ParseOffsets(Tail(pieces))
                 ELSE (CHOOSE out \in {add(a1, a2) : a1 \in {Stoull16(offset)}, a2 \in {ParseOffsets(Tail(pieces))}} : TRUE)
         IN  (CHOOSE out \in {trimmed(a1) : a1 \in {TrimRight(TrimLeft(Head(pieces)))}} : TRUE)

StripBrackets(str) ==
    LET back(s) == IF s # <<>> /\ s[Len(s)] = "]" THEN SubSeq(s, 1, Len(s) - 1) ELSE s
    IN  (CHOOSE out \in {back(a1) : a1 \in {IF Head(str) = "[" THEN Tail(str) ELSE str}} : TRUE)

\* HandlePointerChain: the response, its data the text "0x" and the digits of
\* the result; derefs: the addresses the engine read.
NoChainResponse == [success |-> FALSE, data |-> <<>>, derefs |-> <<>>]

HandlePointerChain(h, baseStr, offsetsStr) ==
    LET follow(result) ==
            IF result.ok
            THEN [success |-> TRUE, data |-> <<"0", "x">> \o ToHex(result.value), derefs |-> result.derefs]
            ELSE [NoChainResponse EXCEPT !.derefs = result.derefs]
        parsed(base, list) ==
            IF ~base.ok \/ ~list.ok THEN NoChainResponse
            ELSE (CHOOSE out \in {follow(a1) : a1 \in {FollowPointerChain(h, base.value, list.offsets)}} : TRUE)
    IN  IF baseStr = <<>> \/ offsetsStr = <<>> THEN NoChainResponse
        ELSE (CHOOSE out \in {parsed(a1, a2) : a1 \in {Stoull16(baseStr)}, a2 \in {ParseOffsets(SplitComma(StripBrackets(offsetsStr), <<>>))}} : TRUE)

-----------------------------------------------------------------------------
(* Typed values (MemoryEngine.cpp) and the typed commands of the router.     *)

Letters == <<"A", "B", "C", "D", "E", "F", "G", "H", "I", "J", "K", "L", "M", "N", "O", "P", "Q", "R", "S", "T", "U", "V", "W", "X", "Y", "Z">>
LettersLower == <<"a", "b", "c", "d", "e", "f", "g", "h", "i", "j", "k", "l", "m", "n", "o", "p", "q", "r", "s", "t", "u", "v", "w", "x", "y", "z">>

\* The code of a character: a space, a digit or a letter (any other
\* character of these models stands for '?').
CharCode(c) ==
    IF c = " " THEN 32
    ELSE IF HexValue(c) >= 0 /\ HexValue(c) <= 9 THEN 48 + HexValue(c)
    ELSE IF \E i \in 1..26 : Letters[i] = c THEN 64 + (CHOOSE i \in 1..26 : Letters[i] = c)
    ELSE IF \E i \in 1..26 : LettersLower[i] = c THEN 96 + (CHOOSE i \in 1..26 : LettersLower[i] = c)
    ELSE 63

IsDecimal(c) == HexValue(c) >= 0 /\ HexValue(c) <= 9

\* The decimal digits std::stoi consumes from position k on, as a number:
\* -2 stands for 2^31 and -1 for any greater number.
RECURSIVE DecimalFrom(_, _, _)
DecimalFrom(str, k, acc) ==
    IF k > Len(str) \/ ~IsDecimal(str[k]) THEN acc
    ELSE IF acc = -2 \/ acc > 214748364 \/ (acc = 214748364 /\ HexValue(str[k]) > 8) THEN -1
    ELSE IF acc = 214748364 /\ HexValue(str[k]) = 8 THEN DecimalFrom(str, k + 1, -2)
    ELSE DecimalFrom(str, k + 1, acc * 10 + HexValue(str[k]))

\* std::stoi(value): white space and a sign are skipped; it throws
\* std::invalid_argument when no digit follows and std::out_of_range when the
\* number is no int.  low, high: the two 16-bit halves of the int.
RECURSIVE Stoi(_)
Stoi(str) ==
    LET halves(n, negative) ==
            IF n = -1 \/ (n = -2 /\ ~negative) THEN [ok |-> FALSE, low |-> 0, high |-> 0]
            ELSE IF n = -2 THEN [ok |-> TRUE, low |-> 0, high |-> 32768]
            ELSE IF negative
            THEN [ok |-> TRUE, low |-> (0 - n) % LimbBase, high |-> ((0 - n) \div LimbBase) % LimbBase]
            ELSE [ok |-> TRUE, low |-> n % LimbBase, high |-> n \div LimbBase]
        number(k, negative) ==
            IF k > Len(str) \/ ~IsDecimal(str[k]) THEN [ok |-> FALSE, low |-> 0, high |-> 0]
            ELSE (CHOOSE out \in {halves(a1, a2) : a1 \in {DecimalFrom(str, k, 0)}, a2 \in {negative}} : TRUE)
    IN  IF str # <<>> /\ IsSpace(Head(str)) THEN Stoi(Tail(str))
        ELSE IF str # <<>> /\ Head(str) = "-" THEN number(2, TRUE)
        ELSE IF str # <<>> /\ Head(str) = "+" THEN number(2, FALSE)
        ELSE number(1, FALSE)

\* The tokens `iss >> byte` yields: the runs of characters between white
\* space.
RECURSIVE SplitSpace(_, _)
SplitSpace(str, piece) ==
    IF str = <<>> THEN (IF piece = <<>> THEN <<>> ELSE <<piece>>)
    ELSE IF IsSpace(Head(str)) THEN (IF piece = <<>> THEN <<>> ELSE <<piece>>) \o SplitSpace(Tail(str), <<>>)
    ELSE SplitSpace(Tail(str), Append(piece, Head(str)))

\* HexStringToBytes: every token of two characters gives a byte, any other
\* token is skipped; ok is FALSE when std::stoul throws.
RECURSIVE HexTokensToBytes(_)
HexTokensToBytes(tokens) ==
    IF tokens = <<>> THEN [ok |-> TRUE, bytes |-> <<>>]
    ELSE LET add(first, rest) ==
                 IF ~first.ok \/ ~rest.ok THEN [ok |-> FALSE, bytes |-> <<>>]
                 ELSE [ok |-> TRUE, bytes |-> <<first.value % 256>> \o rest.bytes]
         IN  IF Len(Head(tokens)) = 2
             THEN (CHOOSE out \in {add(a1, a2) : a1 \in {Stoul16(Head(tokens))}, a2 \in {HexTokensToBytes(Tail(tokens))}} : TRUE)
             ELSE HexTokensToBytes(Tail(tokens))

HexStringToBytes(hexString) == HexTokensToBytes(SplitSpace(hexString, <<>>))

\* std::stof and std::stod of the texts the clients send for a float and a
\* double: the IEEE-754 encodings of 1.5 and of 0; any text that does not
\* start a number throws.
FloatBytes(value, size) ==
    IF value = <<"1", ".", "5">>
    THEN [ok |-> TRUE, bytes |-> IF size = 4 THEN <<0, 0, 192, 63>> ELSE <<0, 0, 0, 0, 0, 0, 248, 63>>]
    ELSE IF value = <<"0">> THEN [ok |-> TRUE, bytes |-> [i \in 1..size |-> 0]]
    ELSE [ok |-> FALSE, bytes |-> <<>>]

\* StringToValue: the bytes of a value of a type; ok is FALSE when the
\* conversion throws.
StringToValue(value, type) ==
    LET int32(v) == IF ~v.ok THEN [ok |-> FALSE, bytes |-> <<>>]
                    ELSE [ok |-> TRUE, bytes |-> <<v.low % 256, v.low \div 256, v.high % 256, v.high \div 256>>]
    IN  IF type = "int32" THEN (CHOOSE out \in {int32(a1) : a1 \in {Stoi(value)}} : TRUE)
        ELSE IF type = "float" THEN FloatBytes(value, 4)
        ELSE IF type = "double" THEN FloatBytes(value, 8)
        ELSE IF type = "string" THEN [ok |-> TRUE, bytes |-> [i \in 1..Len(value) |-> CharCode(value[i])]]
        ELSE HexStringToBytes(value)

\* The response of a typed command: success or the error it names.
Failure(error) == [success |-> FALSE, error |-> error]
Success == [success |-> TRUE, error |-> ""]

\* HandleMemoryWrite: the host after the call and the response.
HandleMemoryWrite(h, addressStr, valueStr, typeStr) ==
    LET write(r) ==
            IF r.ret THEN [h |-> r.h, response |-> Success]
            ELSE [h |-> r.h, response |-> Failure("Failed to write to memory. Address may not be writable.")]
        convert(address, bytesToWrite) ==
            IF ~address.ok \/ ~bytesToWrite.ok THEN [h |-> h, response |-> Failure("Write error")]
            ELSE IF bytesToWrite.bytes = <<>>
            THEN [h |-> h, response |-> Failure("Invalid value or type for writing")]
            ELSE (CHOOSE out \in {write(a1) : a1 \in {SafeWriteBytes(h, address.value, bytesToWrite.bytes, [vp1Ok |-> TRUE, copied |-> Len(bytesToWrite.bytes), vp2Ok |-> TRUE])}} : TRUE)
    IN  IF addressStr = <<>> \/ valueStr = <<>> \/ typeStr = ""
        THEN [h |-> h, response |-> Failure("Missing address, value, or type parameter")]
        ELSE (CHOOSE out \in {convert(a1, a2) : a1 \in {Stoull16(addressStr)}, a2 \in {StringToValue(valueStr, typeStr)}} : TRUE)

\* The bytes memory.read_value asks of the host for the string and the bytes
\* type, and the size of the range it validates first.
StringReadSize == 256
BytesReadSize == 16
ValidatedSize == 8

\* SafeRead<T> for a T of n bytes.
SafeReadValue(h, address, n) == IsAddressReadable(h, address, W(n))

\* HandleMemoryReadValue: the response.
HandleMemoryReadValue(h, addressStr, typeStr) ==
    LET value(address, n, error) ==
            IF SafeReadValue(h, address, n) THEN Success ELSE Failure(error)
        block(address, n, error) ==
            IF SafeReadBytes(h, address, W(n), [fault |-> FALSE]).bytes = <<>> THEN Failure(error)
            ELSE Success
        typed(address) ==
            IF ~address.ok THEN Failure("Failed to read memory value")
            ELSE IF ~IsAddressValid(h, address.value, W(ValidatedSize)) THEN Failure("Invalid memory address")
            ELSE IF ~IsAddressReadable(h, address.value, W(ValidatedSize))
            THEN Failure("Memory address is not readable")
            ELSE IF typeStr = "int32" \/ typeStr = "int"
            THEN value(address.value, 4, "Failed to read integer value")
            ELSE IF typeStr = "int64" THEN value(address.value, 8, "Failed to read int64 value")
            ELSE IF typeStr = "float" THEN value(address.value, 4, "Failed to read float value")
            ELSE IF typeStr = "double" THEN value(address.value, 8, "Failed to read double value")
            ELSE IF typeStr = "byte" THEN value(address.value, 1, "Failed to read byte value")
            ELSE IF typeStr = "string" THEN block(address.value, StringReadSize, "Failed to read string")
            ELSE IF typeStr = "bytes" THEN block(address.value, BytesReadSize, "Failed to read bytes")
            ELSE Failure("Unknown type")
    IN  IF addressStr = <<>> \/ typeStr = "" THEN Failure("Missing address or type parameter")
        ELSE (CHOOSE out \in {typed(a1) : a1 \in {Stoull16(addressStr)}} : TRUE)

-----------------------------------------------------------------------------
(* Patching (MemoryEngine.cpp, CommandRouter.cpp).                           *)

\* PatchBytes: the host after the call and what it returns.
PatchBytes(h, address, originalBytes, newBytes) ==
    LET written(r) == [h |-> r.h, ret |-> r.ret]
        verify(currentBytes) ==
            IF currentBytes.kind # "returned" \/ currentBytes.bytes # originalBytes
            THEN [h |-> h, ret |-> FALSE]
            ELSE (CHOOSE out \in {written(a1) : a1 \in {SafeWriteBytes(h, address, newBytes, [vp1Ok |-> TRUE, copied |-> Len(newBytes), vp2Ok |-> TRUE])}} : TRUE)
    IN  (CHOOSE out \in {verify(a1) : a1 \in {SafeReadBytes(h, address, W(Len(originalBytes)), [fault |-> FALSE])}} : TRUE)

\* HandleMemoryPatch: the host after the call and the response.
HandleMemoryPatch(h, addressStr, originalStr, newStr) ==
    LET respond(r) ==
            IF r.ret THEN [h |-> r.h, response |-> Success]
            ELSE [h |-> r.h, response |-> Failure("Failed to apply patch - original bytes don't match or write failed")]
        patch(address, originalBytes, newBytes) ==
            IF ~address.ok \/ ~originalBytes.ok \/ ~newBytes.ok
            THEN [h |-> h, response |-> Failure("Patch operation failed")]
            ELSE (CHOOSE out \in {respond(a1) : a1 \in {PatchBytes(h, address.value, originalBytes.bytes, newBytes.bytes)}} : TRUE)
    IN  IF addressStr = <<>> \/ originalStr = <<>> \/ newStr = <<>>
        THEN [h |-> h, response |-> Failure("Missing required parameters")]
        ELSE (CHOOSE out \in {patch(a1, a2, a3) : a1 \in {Stoull16(addressStr)}, a2 \in {HexStringToBytes(originalStr)}, a3 \in {HexStringToBytes(newStr)}} : TRUE)

-----------------------------------------------------------------------------
(* The commands of the router as state machines: a client sends commands    *)
(* one at a time; lastOp is the last command and its response.              *)

Tok(a, b) == <<a, b>>

\* The patterns the clients scan for: two zero bytes, a wildcard between two
\* bytes, the first two bytes of the program, four bytes with a leading
\* wildcard, a token that is no number, and no pattern.
ScanPatterns ==
    {<<Tok("0", "0"), Tok("0", "0")>>,
     <<Tok("0", "1"), <<"?">>, Tok("0", "3")>>,
     <<Tok("5", "5"), Tok("4", "8")>>,
     <<Tok("?", "?"), Tok("0", "2"), Tok("0", "3"), Tok("0", "4")>>,
     <<Tok("z", "z")>>,
     <<>>}

\* The ranges they scan: the default (the main module), the read/write
\* region, its first two bytes, the read/write and the read-only region, and
\* everything from the program to the reserved region.
ScanRanges ==
    {[start |-> W(0), end |-> W(0)],
     [start |-> RegionBase("data"), end |-> WPlus(RegionBase("data"), 32)],
     [start |-> RegionBase("data"), end |-> WPlus(RegionBase("data"), 2)],
     [start |-> RegionBase("data"), end |-> WPlus(RegionBase("ro"), 4)],
     [start |-> RegionBase(CodeRegion), end |-> WPlus(RegionBase("rsv"), 4)]}

UndefinedOutcomes == {"fault", "stray"}

\* lastOp of the router: the command, its parameters, its response, and the
\* memory before it ran.
CmdOp(op, args, response) == [op |-> op, args |-> args, response |-> response, pre |-> mem]

\* The memory the commands work on: the read/write region holds a chain of
\* pointers in slots of eight bytes: slot 0 points to slot 1, slot 1 to slot
\* 2, slot 2 to the region that cannot be read, and slot 3 holds null.
ChainSlot(k) == WPlus(RegionBase("data"), 8 * k)
PadWord(a) == WordBytes(a) \o [i \in 1..(8 - WordSize) |-> 0]
CommandMem == [InitMem EXCEPT !.data = PadWord(ChainSlot(1)) \o PadWord(ChainSlot(2)) \o PadWord(RegionBase("na")) \o PadWord(W(0))]

\* The base addresses of the pointer.chain requests, as sent and as meant:
\* the four slots, null, and an address whose word runs past its region.
ChainBases ==
    {[text |-> <<"0", "x", "A", "0", "0", "0", "0", "0">>, value |-> Wd(0, 160, 0, 0)],
     [text |-> <<"A", "0", "0", "0", "0", "8">>, value |-> Wd(8, 160, 0, 0)],
     [text |-> <<"0", "x", "a", "0", "0", "0", "1", "0">>, value |-> Wd(16, 160, 0, 0)],
     [text |-> <<"A", "0", "0", "0", "1", "8">>, value |-> Wd(24, 160, 0, 0)],
     [text |-> <<"0">>, value |-> Wd(0, 0, 0, 0)],
     [text |-> <<"A", "0", "0", "0", "1", "E">>, value |-> Wd(30, 160, 0, 0)]}

\* Their offset lists, as sent and as meant.
ChainOffsets ==
    {[text |-> <<"[", "]">>, value |-> <<>>],
     [text |-> <<"[", "0", "x", "0", "]">>, value |-> <<Wd(0, 0, 0, 0)>>],
     [text |-> <<"[", "8", "]">>, value |-> <<Wd(8, 0, 0, 0)>>],
     [text |-> <<"[", "0", "x", "1", "0", "]">>, value |-> <<Wd(16, 0, 0, 0)>>],
     [text |-> <<"[", "0", ",", " ", "0", "]">>, value |-> <<Wd(0, 0, 0, 0), Wd(0, 0, 0, 0)>>],
     [text |-> <<"[", "0", ",", "0", ",", "0", "]">>, value |-> <<Wd(0, 0, 0, 0), Wd(0, 0, 0, 0), Wd(0, 0, 0, 0)>>],
     [text |-> <<"[", "0", ",", "0", ",", "0", ",", "0", "]">>, value |-> <<Wd(0, 0, 0, 0), Wd(0, 0, 0, 0), Wd(0, 0, 0, 0), Wd(0, 0, 0, 0)>>],
     [text |-> <<"[", "8", ",", " ", "0", "]">>, value |-> <<Wd(8, 0, 0, 0), Wd(0, 0, 0, 0)>>],
     [text |-> <<"[", "F", "F", "F", "F", "F", "F", "F", "8", ",", " ", "0", "x", "8", "]">>, value |-> <<Wd(65528, 65535, 0, 0), Wd(8, 0, 0, 0)>>]}

\* Requests the router cannot parse: no base, no list, a base or an offset
\* that is no number.
BadChainRequests ==
    {[baseStr |-> <<>>, offsetsStr |-> <<"[", "0", "]">>],
     [baseStr |-> <<"A", "0", "0", "0", "0", "0">>, offsetsStr |-> <<>>],
     [baseStr |-> <<"z", "z">>, offsetsStr |-> <<"[", "0", "]">>],
     [baseStr |-> <<"A", "0", "0", "0", "0", "0">>, offsetsStr |-> <<"[", "0", ",", "z", "z", "]">>]}

\* The type tags of the data model.
TypeTags == {"int32", "int64", "float", "double", "byte", "string", "bytes"}

\* The memory.write requests: a value of each type in the text the engine
\* converts, written to the last slot of the read/write region; two tags that
\* are no type tag; values and an address that are no number; a write to the
\* reserved region.
TypedWrites ==
    {[address |-> <<"A", "0", "0", "0", "1", "8">>, value |-> <<"7">>, type |-> "int32", wellFormed |-> TRUE],
     [address |-> <<"A", "0", "0", "0", "1", "8">>, value |-> <<"0">>, type |-> "double", wellFormed |-> TRUE],
     [address |-> <<"A", "0", "0", "0", "1", "8">>, value |-> <<"0">>, type |-> "float", wellFormed |-> TRUE],
     [address |-> <<"A", "0", "0", "0", "1", "8">>, value |-> <<"0", "7">>, type |-> "byte", wellFormed |-> TRUE],
     [address |-> <<"A", "0", "0", "0", "1", "8">>, value |-> <<"0", "7", " ", "0", "0", " ", "0", "0", " ", "0", "0", " ", "0", "0", " ", "0", "0", " ", "0", "0", " ", "0", "0">>, type |-> "int64", wellFormed |-> TRUE],
     [address |-> <<"A", "0", "0", "0", "1", "8">>, value |-> <<"A">>, type |-> "string", wellFormed |-> TRUE],
     [address |-> <<"A", "0", "0", "0", "1", "8">>, value |-> <<"0", "7", " ", "0", "0", " ", "0", "0", " ", "0", "0">>, type |-> "bytes", wellFormed |-> TRUE],
     [address |-> <<"A", "0", "0", "0", "1", "8">>, value |-> <<"0", "7">>, type |-> "word", wellFormed |-> TRUE],
     [address |-> <<"A", "0", "0", "0", "1", "8">>, value |-> <<"7">>, type |-> "Int32", wellFormed |-> TRUE],
     [address |-> <<"A", "0", "0", "0", "1", "8">>, value |-> <<"z", "z">>, type |-> "int32", wellFormed |-> FALSE],
     [address |-> <<"A", "0", "0", "0", "1", "8">>, value |-> <<>>, type |-> "int32", wellFormed |-> FALSE],
     [address |-> <<"z", "z">>, value |-> <<"7">>, type |-> "int32", wellFormed |-> FALSE],
     [address |-> <<"D", "0", "0", "0", "0", "0">>, value |-> <<"7">>, type |-> "int32", wellFormed |-> TRUE]}

\* The memory.read_value requests: addresses and tags.
TypedReadAddresses == {<<"A", "0", "0", "0", "1", "8">>, <<"A", "0", "0", "0", "0", "0">>, <<"C", "0", "0", "0", "0", "0">>, <<"0">>}
TypedReadTags == TypeTags \cup {"int", "word", ""}

InitCommands ==
    /\ is64Bit \in BOOLEAN
    /\ mem = CommandMem
    /\ prot = InitProt
    /\ trampolines = <<>>
    /\ hooks = EmptyMap
    /\ addressToName = EmptyMap
    /\ engine = "running"
    /\ lastOp = CmdOp("none", <<>>, NoResponse)
    /\ before = EmptyMap
    /\ installs = 0
    /\ scan = NoScan
    /\ threads = NoThreads

PatternScanAllCommand ==
    /\ engine = "running"
    /\ \E pattern \in ScanPatterns, range \in ScanRanges, ub \in UndefinedOutcomes :
       \E r \in {HandlePatternScanAll(Host, pattern, range.start, range.end, [ub |-> ub])} :
          /\ lastOp' = CmdOp("pattern.scanall", [pattern |-> pattern, range |-> range], r)
          /\ engine' = IF r.kind = "fault" THEN "crashed" ELSE engine
    /\ UNCHANGED <<is64Bit, mem, prot, trampolines, hooks, addressToName, before,
                   installs, scan, threads>>

PatternScanCommand ==
    /\ engine = "running"
    /\ \E pattern \in ScanPatterns, range \in ScanRanges, ub \in UndefinedOutcomes :
       \E r \in {HandlePatternScan(Host, pattern, range.start, range.end, [ub |-> ub])} :
          /\ lastOp' = CmdOp("pattern.scan", [pattern |-> pattern, range |-> range], r)
          /\ engine' = IF r.kind = "fault" THEN "crashed" ELSE engine
    /\ UNCHANGED <<is64Bit, mem, prot, trampolines, hooks, addressToName, before,
                   installs, scan, threads>>

PointerChainCommand ==
    /\ engine = "running"
    /\ \/ \E base \in ChainBases, list \in ChainOffsets :
          \E r \in {HandlePointerChain(Host, base.text, list.text)} :
             lastOp' = CmdOp("pointer.chain",
                             [wellFormed |-> TRUE, base |-> base.value, offsets |-> list.value], r)
       \/ \E q \in BadChainRequests :
          \E r \in {HandlePointerChain(Host, q.baseStr, q.offsetsStr)} :
             lastOp' = CmdOp("pointer.chain", [wellFormed |-> FALSE, request |-> q], r)
    /\ UNCHANGED <<is64Bit, mem, prot, trampolines, hooks, addressToName, engine, before,
                   installs, scan, threads>>

MemoryWriteCommand ==
    /\ engine = "running"
    /\ \E q \in TypedWrites : \E r \in {HandleMemoryWrite(Host, q.address, q.value, q.type)} :
          /\ mem' = r.h.mem
          /\ prot' = r.h.prot
          /\ lastOp' = CmdOp("memory.write", q, r.response)
    /\ UNCHANGED <<is64Bit, trampolines, hooks, addressToName, engine, before, installs,
                   scan, threads>>

MemoryReadValueCommand ==
    /\ engine = "running"
    /\ \E address \in TypedReadAddresses, type \in TypedReadTags :
       \E r \in {HandleMemoryReadValue(Host, address, type)} :
          lastOp' = CmdOp("memory.read_value", [address |-> address, type |-> type], r)
    /\ UNCHANGED <<is64Bit, mem, prot, trampolines, hooks, addressToName, engine, before,
                   installs, scan, threads>>

\* The pattern scans of a client.
NextPattern ==
    \/ PatternScanAllCommand
    \/ PatternScanCommand

SpecPattern == InitCommands /\ [][NextPattern]_vars

\* The pointer chains a client follows.
NextChain == PointerChainCommand

SpecChain == InitCommands /\ [][NextChain]_vars

\* The typed writes and reads of a client.
NextTyped ==
    \/ MemoryWriteCommand
    \/ MemoryReadValueCommand

SpecTyped == InitCommands /\ [][NextTyped]_vars

\* The memory.patch requests, as sent and as meant (at: the address, meant:
\* the bytes the caller expects there): patches of the last slot of the
\* read/write region whose expected bytes are there, are not there, or are
\* written without spaces or as single digits; patches of the region that
\* cannot be read; new bytes, an address and expected bytes that are no
\* numbers or are missing.
PatchRequests ==
    {[address |-> <<"A", "0", "0", "0", "1", "8">>, original |-> <<"0", "0", " ", "0", "0">>, new |-> <<"0", "7", " ", "0", "9">>, at |-> Wd(24, 160, 0, 0), meant |-> <<0, 0>>, wellFormed |-> TRUE],
     [address |-> <<"A", "0", "0", "0", "1", "8">>, original |-> <<"0", "7", " ", "0", "9">>, new |-> <<"0", "0", " ", "0", "0">>, at |-> Wd(24, 160, 0, 0), meant |-> <<7, 9>>, wellFormed |-> TRUE],
     [address |-> <<"A", "0", "0", "0", "1", "8">>, original |-> <<"F", "F", " ", "F", "F">>, new |-> <<"0", "7", " ", "0", "9">>, at |-> Wd(24, 160, 0, 0), meant |-> <<255, 255>>, wellFormed |-> TRUE],
     [address |-> <<"A", "0", "0", "0", "1", "8">>, original |-> <<"F", "F", "F", "F">>, new |-> <<"0", "7", " ", "0", "9">>, at |-> Wd(24, 160, 0, 0), meant |-> <<255, 255>>, wellFormed |-> TRUE],
     [address |-> <<"0", "x", "A", "0", "0", "0", "1", "8">>, original |-> <<"0", " ", "0">>, new |-> <<"4", "1">>, at |-> Wd(24, 160, 0, 0), meant |-> <<0, 0>>, wellFormed |-> TRUE],
     [address |-> <<"C", "0", "0", "0", "0", "0">>, original |-> <<"0", "0">>, new |-> <<"0", "7">>, at |-> Wd(0, 192, 0, 0), meant |-> <<0>>, wellFormed |-> TRUE],
     [address |-> <<"C", "0", "0", "0", "0", "0">>, original |-> <<"F", "F">>, new |-> <<"0", "7">>, at |-> Wd(0, 192, 0, 0), meant |-> <<255>>, wellFormed |-> TRUE],
     [address |-> <<"C", "0", "0", "0", "0", "0">>, original |-> <<"0", "x", "0">>, new |-> <<"0", "7">>, at |-> Wd(0, 192, 0, 0), meant |-> <<0>>, wellFormed |-> TRUE],
     [address |-> <<"A", "0", "0", "0", "1", "8">>, original |-> <<"0", "0", " ", "0", "0">>, new |-> <<"z", "z">>, at |-> Wd(24, 160, 0, 0), meant |-> <<0, 0>>, wellFormed |-> TRUE],
     [address |-> <<"z", "z">>, original |-> <<"0", "0">>, new |-> <<"0", "7">>, at |-> Wd(0, 0, 0, 0), meant |-> <<0>>, wellFormed |-> FALSE],
     [address |-> <<"A", "0", "0", "0", "1", "8">>, original |-> <<>>, new |-> <<"0", "7">>, at |-> Wd(24, 160, 0, 0), meant |-> <<>>, wellFormed |-> FALSE]}

MemoryPatchCommand ==
    /\ engine = "running"
    /\ \E q \in PatchRequests : \E r \in {HandleMemoryPatch(Host, q.address, q.original, q.new)} :
          /\ mem' = r.h.mem
          /\ prot' = r.h.prot
          /\ lastOp' = CmdOp("memory.patch", q, r.response)
    /\ UNCHANGED <<is64Bit, trampolines, hooks, addressToName, engine, before, installs,
                   scan, threads>>

\* The patches and typed writes of a client.
NextPatch ==
    \/ MemoryPatchCommand
    \/ MemoryWriteCommand

SpecPatch == InitCommands /\ [][NextPatch]_vars

-----------------------------------------------------------------------------
(* Properties of the pattern scan.                                           *)

\* A pattern of two-digit hexadecimal bytes and wildcards.
WellFormed(pattern) ==
    /\ pattern # <<>>
    /\ \A i \in 1..Len(pattern) :
          \/ IsWildcard(pattern[i])
          \/ Len(pattern[i]) = 2 /\ HexValue(pattern[i][1]) >= 0 /\ HexValue(pattern[i][2]) >= 0

\* Whether the pattern occurs at address a of memory m: a window of readable,
\* committed memory in which every byte that is no wildcard is the pattern's.
OccursAt(m, a, pattern) ==
    LET r == RegionOf(m, a)
    IN  /\ r # "none"
        /\ RegionState(Host, r) = "MEM_COMMIT"
        /\ prot[r] \in ReadableProtections
        /\ OffsetIn(r, a) + Len(pattern) <= Len(m[r])
        /\ \A j \in 1..Len(pattern) :
              IsWildcard(pattern[j]) \/
              m[r][OffsetIn(r, a) + j] = 16 * HexValue(pattern[j][1]) + HexValue(pattern[j][2])

AllAddresses(m) == UNION {{WPlus(RegionBase(r), off) : off \in 0..(Len(m[r]) - 1)} : r \in Regions}

\* The occurrences of the pattern that lie inside [start, end).
Occurrences(m, pattern, range) ==
    {a \in AllAddresses(m) :
        /\ WLe(range.start, a)
        /\ WLe(WPlus(a, Len(pattern)), range.end)
        /\ OccursAt(m, a, pattern)}

SeqRange(s) == {s[i] : i \in 1..Len(s)}

\* A scan of an explicit range for a well-formed pattern has completed.
ScannedRange(op) ==
    /\ lastOp.op = op
    /\ WellFormed(lastOp.args.pattern)
    /\ lastOp.args.range.start # W(0) /\ lastOp.args.range.end # W(0)

\* C13: for any pattern of bytes and wildcards and any range [start, end),
\* pattern.scanall returns exactly the addresses in readable regions of the
\* range at which the pattern occurs (none for a range shorter than the
\* pattern), and pattern.scan returns the lowest of them.
C13_PatternScanExact ==
    /\ ScannedRange("pattern.scanall") =>
          /\ lastOp.response.kind = "response" /\ lastOp.response.success
          /\ SeqRange(lastOp.response.addrs) = Occurrences(mem, lastOp.args.pattern, lastOp.args.range)
    /\ ScannedRange("pattern.scan") =>
          /\ lastOp.response.kind = "response"
          /\ lastOp.response.success = (Occurrences(mem, lastOp.args.pattern, lastOp.args.range) # {})
          /\ lastOp.response.success =>
                \A a \in Occurrences(mem, lastOp.args.pattern, lastOp.args.range) :
                    WLe(lastOp.response.addrs[1], a)

\* Every piece of the range that the scan read was at least as long as the
\* pattern.
NoShortPiece ==
    \A r \in Regions :
        LET lo == WMax(RegionBase(r), lastOp.args.range.start)
            hi == WMin(WPlus(RegionBase(r), Len(mem[r])), lastOp.args.range.end)
        IN  (WLt(lo, hi) /\ prot[r] \in ReadableProtections /\ RegionState(Host, r) = "MEM_COMMIT")
               => WLe(WPlus(lo, Len(lastOp.args.pattern)), hi)

\* The scan is exact on ranges whose pieces hold the pattern.
C13_ExactOnLongPieces ==
    /\ (ScannedRange("pattern.scanall") /\ NoShortPiece) =>
          /\ lastOp.response.kind = "response" /\ lastOp.response.success
          /\ SeqRange(lastOp.response.addrs) = Occurrences(mem, lastOp.args.pattern, lastOp.args.range)
    /\ (ScannedRange("pattern.scan") /\ NoShortPiece) =>
          /\ lastOp.response.kind = "response"
          /\ lastOp.response.success = (Occurrences(mem, lastOp.args.pattern, lastOp.args.range) # {})

-----------------------------------------------------------------------------
(* Properties of the pointer chain.                                          *)

\* Whether the word at address a can be read: each of its bytes lies in a
\* committed region that is readable.
ReadableWordAt(a) ==
    \A i \in 0..(WordSize - 1) :
        /\ RegionOf(mem, WPlus(a, i)) # "none"
        /\ RegionState(Host, RegionOf(mem, WPlus(a, i))) = "MEM_COMMIT"
        /\ prot[RegionOf(mem, WPlus(a, i))] \in ReadableProtections

WordAt(a) == BytesWord(PeekN(mem, a, WordSize))

\* The law: p_0 = base, p_(i+1) = word_at(p_i) + o_i; the chain from p = p_(i-1)
\* on fails at the first p_i that cannot be read, and else ends in p_n after
\* reading p_0 .. p_(n-1).
RECURSIVE ChainLaw(_, _, _)
ChainLaw(p, offsets, i) ==
    IF i > Len(offsets) THEN [ok |-> TRUE, value |-> p, derefs |-> <<>>]
    ELSE IF ~ReadableWordAt(p) THEN [ok |-> FALSE, value |-> W(0), derefs |-> <<>>]
    ELSE LET rest(r) == [r EXCEPT !.derefs = <<p>> \o @]
             next(q) == ChainLaw(q, offsets, i + 1)
         IN  (CHOOSE out \in {rest(a1) : a1 \in {(CHOOSE out \in {next(a1) : a1 \in {WAdd(WordAt(p), offsets[i])}} : TRUE)}} : TRUE)

-----------------------------------------------------------------------------
(* Properties of the typed commands.                                         *)

\* C16: a command that takes a type tag answers failure, and writes no byte
\* of host memory, when the tag is none of int32, int64, float, double, byte,
\* string, bytes; and it accepts each of these seven.
C16_UnknownTagRejected ==
    /\ (lastOp.op = "memory.write" /\ lastOp.args.type \notin TypeTags) =>
          ~lastOp.response.success /\ mem = lastOp.pre
    /\ (lastOp.op = "memory.read_value" /\ lastOp.args.type \notin TypeTags) =>
          ~lastOp.response.success
    /\ (lastOp.op = "memory.read_value" /\ lastOp.args.type \in TypeTags) =>
          lastOp.response.error # "Unknown type"

\* The seven tags are accepted: no request that carries one of them is
\* answered with the error of an unknown type.
C16_KnownTagsAccepted ==
    (lastOp.op = "memory.read_value" /\ lastOp.args.type \in TypeTags) =>
        lastOp.response.error # "Unknown type"

-----------------------------------------------------------------------------
(* Properties of memory.patch.                                               *)

\* Whether the bytes the caller expects were at the address, in readable
\* memory, when the patch was requested.
Verified ==
    /\ lastOp.args.wellFormed
    /\ lastOp.args.meant # <<>>
    /\ \A i \in 0..(Len(lastOp.args.meant) - 1) :
          /\ RegionOf(lastOp.pre, WPlus(lastOp.args.at, i)) # "none"
          /\ RegionState(Host, RegionOf(lastOp.pre, WPlus(lastOp.args.at, i))) = "MEM_COMMIT"
          /\ prot[RegionOf(lastOp.pre, WPlus(lastOp.args.at, i))] \in ReadableProtections
          /\ Peek(lastOp.pre, WPlus(lastOp.args.at, i)) = lastOp.args.meant[i + 1]

\* C17: memory.patch is verify-then-write: it writes the new bytes only
\* after it has read the bytes at the address and found them equal to the
\* expected bytes; when they differ, or cannot be read or verified, it
\* answers failure and memory is unchanged.
C17_VerifyThenWrite ==
    lastOp.op = "memory.patch" =>
        /\ lastOp.response.success => Verified
        /\ ~Verified => (~lastOp.response.success /\ mem = lastOp.pre)

\* The patch is verify-then-write for expected bytes sent as two-digit tokens.
C17_SpacedBytesVerified ==
    (lastOp.op = "memory.patch" /\ lastOp.args.wellFormed
       /\ HexStringToBytes(lastOp.args.original).bytes = lastOp.args.meant) =>
        /\ lastOp.response.success => Verified
        /\ ~Verified => (~lastOp.response.success /\ mem = lastOp.pre)

-----------------------------------------------------------------------------
(* The address-to-module cache (CommandRouter.cpp).  Every client of the    *)
(* IPC server is served on a thread of its own (IpcServer.cpp), so lookups  *)
(* run side by side; the statements of a lookup are the steps below.        *)

MODULE_CACHE_VALIDITY_MS == 5000

\* A DWORD as two 16-bit limbs.
DWord(n) == <<n % LimbBase, n \div LimbBase>>

\* The threads serving clients, the tick advance of the clock and how often
\* it advances.
Threads == {1, 2}
TickStep == 2500
MaxTicks == 2

\* What EnumProcessModules, GetModuleInformation and GetModuleFileNameExA
\* give: the modules of the process as ModuleRange values, in load order.
ProcessModules ==
    <<[base |-> RegionBase("code"), end |-> WPlus(RegionBase("code"), 4096), name |-> "Game.exe"],
      [base |-> RegionBase("ro"), end |-> WPlus(RegionBase("ro"), 4096), name |-> "engine.dll"]>>

\* The addresses looked up: in the first module, in the second, in none.
LookupAddresses == {WPlus(RegionBase("code"), 16), RegionBase("ro"), RegionBase("data")}

\* threads in these state machines: each thread's position (pc), its
\* currentTime and its index i into the enumeration; g_moduleCache,
\* g_lastModuleCacheUpdate; the tick count (now) and how often it advanced.
InitThreads(startTime) ==
    [pc                      |-> [t \in Threads |-> "idle"],
     currentTime             |-> [t \in Threads |-> DWord(0)],
     i                       |-> [t \in Threads |-> 0],
     g_moduleCache           |-> <<>>,
     g_lastModuleCacheUpdate |-> DWord(0),
     now                     |-> startTime,
     ticks                   |-> 0]

\* The tick counts at start: shortly after boot, and shortly before the
\* count wraps around (0xFFFFF060).
StartTimes == {DWord(1000), <<61536, 65535>>}

InitCache ==
    /\ is64Bit \in BOOLEAN
    /\ mem = InitMem
    /\ prot = InitProt
    /\ trampolines = <<>>
    /\ hooks = EmptyMap
    /\ addressToName = EmptyMap
    /\ engine = "running"
    /\ lastOp = [op |-> "none"]
    /\ before = EmptyMap
    /\ installs = 0
    /\ scan = NoScan
    /\ threads \in {InitThreads(startTime) : startTime \in StartTimes}

CacheUnchanged == UNCHANGED <<is64Bit, mem, prot, trampolines, hooks, addressToName, before, installs, scan>>

\* Whether a thread other than t is between the clear() and the last
\* push_back of its refresh.
Rebuilding(t) == \E u \in Threads \ {t} : threads.pc[u] = "enum"

\* GetTickCount advances.
Tick ==
    /\ engine = "running"
    /\ threads.ticks < MaxTicks
    /\ threads' = [threads EXCEPT !.now = AddLimbs(@, DWord(TickStep), 0), !.ticks = @ + 1]
    /\ UNCHANGED <<engine, lastOp>>
    /\ CacheUnchanged

\* UpdateModuleCache, lines 295-298: read the clock and test the cache.
UpdateModuleCache_Check(t) ==
    /\ engine = "running"
    /\ threads.pc[t] = "idle"
    /\ LET currentTime == threads.now
           valid == /\ FinalBorrow(SubLimbs(currentTime, threads.g_lastModuleCacheUpdate, 0), DWord(MODULE_CACHE_VALIDITY_MS), 0) = 1
                    /\ threads.g_moduleCache # <<>>
       IN  threads' = [threads EXCEPT !.currentTime[t] = currentTime,
                                      !.pc[t] = IF valid THEN "find" ELSE "clear"]
    /\ UNCHANGED <<engine, lastOp>>
    /\ CacheUnchanged

\* UpdateModuleCache, line 300: g_moduleCache.clear().
UpdateModuleCache_Clear(t) ==
    /\ engine = "running"
    /\ threads.pc[t] = "clear"
    /\ threads' = [threads EXCEPT !.g_moduleCache = <<>>, !.i[t] = 0, !.pc[t] = "enum"]
    /\ UNCHANGED <<engine, lastOp>>
    /\ CacheUnchanged

\* UpdateModuleCache, lines 305-318: one turn of the loop, a push_back.  A
\* push_back while another thread rebuilds the same vector is a data race:
\* the element is appended, or the call faults.
UpdateModuleCache_Push(t) ==
    /\ engine = "running"
    /\ threads.pc[t] = "enum"
    /\ threads.i[t] < Len(ProcessModules)
    /\ \E outcome \in (IF Rebuilding(t) THEN {"appended", "fault"} ELSE {"appended"}) :
          IF outcome = "fault"
          THEN /\ engine' = "crashed"
               /\ UNCHANGED threads
          ELSE /\ threads' = [threads EXCEPT !.g_moduleCache = Append(@, ProcessModules[threads.i[t] + 1]),
                                             !.i[t] = @ + 1]
               /\ UNCHANGED engine
    /\ UNCHANGED lastOp
    /\ CacheUnchanged

\* UpdateModuleCache, line 321: g_lastModuleCacheUpdate = currentTime.
UpdateModuleCache_Stamp(t) ==
    /\ engine = "running"
    /\ threads.pc[t] = "enum"
    /\ threads.i[t] = Len(ProcessModules)
    /\ threads' = [threads EXCEPT !.g_lastModuleCacheUpdate = threads.currentTime[t], !.pc[t] = "find"]
    /\ UNCHANGED <<engine, lastOp>>
    /\ CacheUnchanged

\* The loop of GetModuleInfoForAddress over a cache: name+0xoffset of the
\* first module that holds the address, or the empty string.
RECURSIVE FindModule(_, _)
FindModule(cache, address) ==
    IF cache = <<>> THEN [name |-> "", offset |-> <<>>]
    ELSE IF WLe(Head(cache).base, address) /\ WLt(address, Head(cache).end)
         THEN [name |-> Head(cache).name, offset |-> <<"+", "0", "x">> \o ToHex(WSub(address, Head(cache).base))]
         ELSE FindModule(Tail(cache), address)

\* GetModuleInfoForAddress, lines 328-337: the loop over g_moduleCache.
\* Iterating the vector while another thread rebuilds it is a data race: the
\* loop sees the vector as it is, or faults.
GetModuleInfoForAddress(t) ==
    /\ engine = "running"
    /\ threads.pc[t] = "find"
    /\ \E address \in LookupAddresses :
       \E outcome \in (IF Rebuilding(t) THEN {"returned", "fault"} ELSE {"returned"}) :
          IF outcome = "fault"
          THEN /\ engine' = "crashed"
               /\ lastOp' = [op |-> "module.lookup", thread |-> t, address |-> address, kind |-> "fault",
                             seen |-> threads.g_moduleCache, raced |-> TRUE, result |-> FindModule(<<>>, address)]
               /\ UNCHANGED threads
          ELSE /\ lastOp' = [op |-> "module.lookup", thread |-> t, address |-> address, kind |-> "returned",
                             seen |-> threads.g_moduleCache, raced |-> Rebuilding(t),
                             result |-> FindModule(threads.g_moduleCache, address)]
               /\ threads' = [threads EXCEPT !.pc[t] = "idle"]
               /\ UNCHANGED engine
    /\ CacheUnchanged

NextCache ==
    \/ Tick
    \/ \E t \in Threads : UpdateModuleCache_Check(t)
    \/ \E t \in Threads : UpdateModuleCache_Clear(t)
    \/ \E t \in Threads : UpdateModuleCache_Push(t)
    \/ \E t \in Threads : UpdateModuleCache_Stamp(t)
    \/ \E t \in Threads : GetModuleInfoForAddress(t)

SpecCache == InitCache /\ [][NextCache]_vars

-----------------------------------------------------------------------------
(* Properties of the module cache.                                           *)

\* No thread is inside a refresh.
NoRefreshRunning == \A t \in Threads : threads.pc[t] \in {"idle", "find"}

\* C18: the address-to-module cache is safe under concurrent requests: a
\* lookup never sees a cleared or partially rebuilt cache (nor faults on
\* it), and once the refreshes have ended the cache is one complete
\* enumeration of the modules.
C18_CacheSafe ==
    /\ engine # "crashed"
    /\ lastOp.op = "module.lookup" => (lastOp.kind = "returned" /\ lastOp.seen = ProcessModules)
    /\ (NoRefreshRunning /\ threads.g_moduleCache # <<>>) => threads.g_moduleCache = ProcessModules

-----------------------------------------------------------------------------
(* The hook registry under concurrent callers (HookManager.cpp).  Each      *)
(* call enters HookManager::criticalSection, finds its entry, patches the   *)
(* target and updates the registry, and leaves.                              *)

\* The calls the threads make.
RegistryCalls ==
    {[op |-> "install", name |-> "a", target |-> RegionBase(CodeRegion), type |-> "AUTO"],
     [op |-> "install", name |-> "b", target |-> RegionBase(CodeRegion), type |-> "JMP_RELATIVE"]}
    \cup {[op |-> o, name |-> n, target |-> <<>>, type |-> ""] : o \in {"remove", "enable", "disable"}, n \in Names}

NoCall == [op |-> "none", name |-> "", target |-> <<>>, type |-> ""]

\* The registry as a call finds it.
Registry == [hooks |-> hooks, addressToName |-> addressToName]

\* threads in this state machine: each thread's position (pc), its call and
\* the registry it found on entering; the owner of criticalSection (0: free).
InitRegistryThreads ==
    [pc              |-> [t \in Threads |-> "idle"],
     call            |-> [t \in Threads |-> NoCall],
     found           |-> [t \in Threads |-> [hooks |-> EmptyMap, addressToName |-> EmptyMap]],
     criticalSection |-> 0]

InitRegistry ==
    /\ is64Bit \in BOOLEAN
    /\ mem = InitMem
    /\ prot = InitProt
    /\ trampolines = <<>>
    /\ hooks = EmptyMap
    /\ addressToName = EmptyMap
    /\ engine = "running"
    /\ lastOp = [op |-> "none"]
    /\ before = EmptyMap
    /\ installs = 0
    /\ scan = NoScan
    /\ threads = InitRegistryThreads

\* A thread calls install, remove, enable or disable.
RegistryCall(t) ==
    /\ engine = "running"
    /\ threads.pc[t] = "idle"
    /\ \E q \in RegistryCalls :
          /\ q.op = "install" => installs < MaxInstalls
          /\ threads' = [threads EXCEPT !.pc[t] = "waiting", !.call[t] = q]
    /\ UNCHANGED <<is64Bit, mem, prot, trampolines, hooks, addressToName, engine, lastOp, before, installs, scan>>

\* An EnterCriticalSection that lets every caller in.
MayEnter_Unguarded(t) == TRUE

\* EnterCriticalSection returns when no other thread owns the section.
MayEnter(t) == threads.criticalSection \in {0, t}

\* EnterCriticalSection and the find() calls that follow it.
EnterCriticalSection(t) ==
    /\ engine = "running"
    /\ threads.pc[t] = "waiting"
    /\ MayEnter(t)
    /\ threads' = [threads EXCEPT !.pc[t] = "inside", !.criticalSection = t, !.found[t] = Registry]
    /\ UNCHANGED <<is64Bit, mem, prot, trampolines, hooks, addressToName, engine, lastOp, before, installs, scan>>

\* The call of a thread applied to a hook state.
RegistryApply(s, q, env) ==
    LET plain(r) == [s |-> r.s, ret |-> r.ret, fault |-> FALSE]
    IN  CASE q.op = "install" -> HM_InstallHook(s, q.name, q.target, Detour, q.type, env)
          [] q.op = "remove"  -> plain(HM_RemoveHook(s, q.name, env))
          [] q.op = "enable"  -> plain(HM_EnableHook(s, q.name))
          [] OTHER            -> plain(HM_DisableHook(s, q.name, env))

\* The rest of the call up to its LeaveCriticalSection: the DetoursLite call
\* and the update of the registry.
CriticalSectionBody(t) ==
    /\ engine = "running"
    /\ threads.pc[t] = "inside"
    /\ \E slot \in AllocAnswers :
       \E r \in {RegistryApply(HookState, threads.call[t], [slot |-> slot, vpOk |-> TRUE, stackAddr |-> Wd(65280, 25, 0, 0)])} :
          /\ SetHookState(r.s)
          /\ lastOp' = [op |-> threads.call[t].op, name |-> threads.call[t].name,
                        target |-> IF threads.call[t].op = "install" THEN threads.call[t].target
                                   ELSE TargetOf(threads.call[t].name),
                        ret |-> r.ret, thread |-> t, found |-> threads.found[t], pre |-> Registry,
                        contenders |-> {threads.call[u] : u \in {v \in Threads \ {t} : threads.pc[v] = "waiting"}}]
          /\ installs' = IF threads.call[t].op = "install" /\ r.ret THEN installs + 1 ELSE installs
          /\ engine' = IF r.fault THEN "crashed" ELSE engine
    /\ threads' = [threads EXCEPT !.pc[t] = "leaving"]
    /\ UNCHANGED <<is64Bit, before, scan>>

LeaveCriticalSection(t) ==
    /\ engine = "running"
    /\ threads.pc[t] = "leaving"
    /\ threads' = [threads EXCEPT !.pc[t] = "idle", !.call[t] = NoCall,
                                  !.found[t] = InitRegistryThreads.found[t],
                                  !.criticalSection = IF @ = t THEN 0 ELSE @]
    /\ UNCHANGED <<is64Bit, mem, prot, trampolines, hooks, addressToName, engine, lastOp, before, installs, scan>>

NextRegistry ==
    \/ \E t \in Threads : RegistryCall(t)
    \/ \E t \in Threads : EnterCriticalSection(t)
    \/ \E t \in Threads : CriticalSectionBody(t)
    \/ \E t \in Threads : LeaveCriticalSection(t)

SpecRegistry == InitRegistry /\ [][NextRegistry]_vars

-----------------------------------------------------------------------------
(* Properties of the registry under concurrent callers.                      *)

\* The threads between their EnterCriticalSection and LeaveCriticalSection.
InSection == {t \in Threads : threads.pc[t] \in {"inside", "leaving"}}

\* C9: the mutations of the hook registry are totally ordered by the
\* registry mutex: no two of install, remove, enable and disable are inside
\* their section at the same time, and each call patches and updates the
\* registry it found on entering, as in a sequential order of the calls.
C9_RegistrySerialized ==
    /\ Cardinality(InSection) <= 1
    /\ lastOp.op \in {"install", "remove", "enable", "disable"} => lastOp.found = lastOp.pre

\* A remove that succeeded while an install on the same address waited.
C9_Witness ==
    /\ lastOp.op = "remove"
    /\ lastOp.ret
    /\ \E q \in lastOp.contenders : q.op = "install" /\ q.target = lastOp.target

-----------------------------------------------------------------------------
(* The memory scanner (MemoryEngine.cpp) and memory.scan (CommandRouter.cpp). *)
(* A ScanResult is [address, value, type, previousValue].                     *)

Quote == "\""

\* std::string::find, find_first_of and find_first_not_of from a position
\* (positions count from 1; 0: npos).
Least(hits) == IF hits = {} THEN 0 ELSE CHOOSE i \in hits : \A j \in hits : i <= j

Find(s, sub, from) ==
    Least({i \in from..(Len(s) - Len(sub) + 1) : SubSeq(s, i, i + Len(sub) - 1) = sub})

FindFirstOf(s, chars, from) == Least({i \in from..Len(s) : s[i] \in chars})

FindFirstNotOf(s, chars, from) == Least({i \in from..Len(s) : s[i] \notin chars})

\* ExtractJsonValue: the text between the quotes after "key":, or the text
\* up to the next comma or closing brace when the value is not quoted.
ExtractJsonValue(json, key) ==
    LET unquoted(valueStart, valueEnd) ==
            SubSeq(json, valueStart, (IF valueEnd = 0 THEN Len(json) + 1 ELSE valueEnd) - 1)
        quoted(valueStart, valueEnd) ==
            IF valueEnd = 0 THEN <<>> ELSE SubSeq(json, valueStart + 1, valueEnd - 1)
        value(valueStart) ==
            IF valueStart = 0 THEN <<>>
            ELSE IF json[valueStart] = Quote
            THEN quoted(valueStart, Find(json, <<Quote>>, valueStart + 1))
            ELSE unquoted(valueStart, FindFirstOf(json, {",", "}"}, valueStart))
        afterColon(colonPos) ==
            IF colonPos = 0 THEN <<>>
            ELSE (CHOOSE out \in {value(a1) : a1 \in {FindFirstNotOf(json, {" "}, colonPos + 1)}} : TRUE)
        afterKey(keyPos) ==
            IF keyPos = 0 THEN <<>>
            ELSE (CHOOSE out \in {afterColon(a1) : a1 \in {Find(json, <<":">>, keyPos)}} : TRUE)
    IN  (CHOOSE out \in {afterKey(a1) : a1 \in {Find(json, <<Quote>> \o key \o <<Quote>>, 1)}} : TRUE)

\* std::to_string of a natural number and of an int32 held in four bytes.
RECURSIVE NatToString(_)
NatToString(n) ==
    IF n < 10 THEN <<HexChars[n + 1]>> ELSE NatToString(n \div 10) \o <<HexChars[(n % 10) + 1]>>

Int32ToString(bytes) ==
    LET low == bytes[1] + 256 * bytes[2] + 65536 * bytes[3]
    IN  IF bytes[4] < 128 THEN NatToString(low + 16777216 * bytes[4])
        ELSE IF bytes = <<0, 0, 0, 128>> THEN <<"-", "2", "1", "4", "7", "4", "8", "3", "6", "4", "8">>
        ELSE <<"-">> \o NatToString((128 - (bytes[4] - 128)) * 16777216 - low)

\* The character of a code: the inverse of CharCode on digits, letters and
\* the space.
CodeChar(code) ==
    IF code = 32 THEN " "
    ELSE IF code >= 48 /\ code <= 57 THEN HexChars[code - 47]
    ELSE IF code >= 65 /\ code <= 90 THEN Letters[code - 64]
    ELSE IF code >= 97 /\ code <= 122 THEN LettersLower[code - 96]
    ELSE "?"

RECURSIVE BytesToHexString(_)
BytesToHexString(bytes) ==
    IF bytes = <<>> THEN <<>>
    ELSE <<HexChars[(Head(bytes) \div 16) + 1], HexChars[(Head(bytes) % 16) + 1]>>
         \o (IF Len(bytes) = 1 THEN <<>> ELSE <<" ">> \o BytesToHexString(Tail(bytes)))

\* std::to_string of the floats and doubles that FloatBytes encodes.
FloatToString(bytes) ==
    IF bytes \in {<<0, 0, 192, 63>>, <<0, 0, 0, 0, 0, 0, 248, 63>>}
    THEN <<"1", ".", "5", "0", "0", "0", "0", "0">>
    ELSE <<"0", ".", "0", "0", "0", "0", "0", "0">>

ValueToString(bytes, type) ==
    IF bytes = <<>> THEN <<>>
    ELSE IF type = "int32" /\ Len(bytes) >= 4 THEN Int32ToString(SubSeq(bytes, 1, 4))
    ELSE IF type = "float" /\ Len(bytes) >= 4 THEN FloatToString(SubSeq(bytes, 1, 4))
    ELSE IF type = "double" /\ Len(bytes) >= 8 THEN FloatToString(SubSeq(bytes, 1, 8))
    ELSE IF type = "string" THEN [i \in 1..Len(bytes) |-> CodeChar(bytes[i])]
    ELSE BytesToHexString(bytes)

\* ScanOptions as HandleMemoryScan fills them: the alignment keeps its
\* default of 1, a filter that is not sent is Any.
ScanOptions(startAddress, endAddress, filterWritable) ==
    [startAddress |-> startAddress, endAddress |-> endAddress, alignment |-> 1,
     filterWritable |-> filterWritable, filterExecutable |-> "Any", filterCopyOnWrite |-> "Any"]

ExecutableProtections ==
    {"PAGE_EXECUTE", "PAGE_EXECUTE_READ", "PAGE_EXECUTE_READWRITE", "PAGE_EXECUTE_WRITECOPY"}

CopyOnWriteProtections == {"PAGE_WRITECOPY", "PAGE_EXECUTE_WRITECOPY"}

CheckState(state, condition) ==
    IF state = "Yes" /\ ~condition THEN FALSE
    ELSE IF state = "No" /\ condition THEN FALSE
    ELSE TRUE

IsRegionScannable(h, r, options) ==
    IF h.prot[r] \notin ReadableProtections THEN FALSE
    ELSE IF ~CheckState(options.filterWritable, h.prot[r] \in WritableProtections) THEN FALSE
    ELSE IF ~CheckState(options.filterExecutable, h.prot[r] \in ExecutableProtections) THEN FALSE
    ELSE IF options.filterCopyOnWrite = "Yes" /\ h.prot[r] \notin CopyOnWriteProtections THEN FALSE
    ELSE IF options.filterCopyOnWrite = "No" /\ h.prot[r] \in CopyOnWriteProtections THEN FALSE
    ELSE TRUE

\* The window [start, end) of a region that a scan reads.
ScanStart(h, r, options) == WMax(RegionBase(r), options.startAddress)

ScanEnd(h, r, options) ==
    IF options.endAddress = W(0) THEN WPlus(RegionBase(r), Len(h.mem[r]))
    ELSE WMin(WPlus(RegionBase(r), Len(h.mem[r])), options.endAddress)

\* One turn of FirstScan's loop over the regions.  When the block read is
\* shorter than the value, regionData.size() - valueBytes.size() wraps
\* around and memcmp reads past the end of regionData: the turn faults, or
\* reports an address that holds no match (env.ub).
FirstScanRegion(h, r, valueBytes, type, options, env) ==
    LET result(start, i) == [address |-> WPlus(start, i), value |-> valueBytes, type |-> type, previousValue |-> <<>>]
        hits(data) == {i \in 0..(Len(data) - Len(valueBytes)) : i % options.alignment = 0 /\ SubSeq(data, i + 1, i + Len(valueBytes)) = valueBytes}
        ordered(start, found) ==
            [kind |-> "returned", results |-> [k \in 1..Cardinality(found) |-> result(start, CHOOSE i \in found : Cardinality({j \in found : j < i}) = k - 1)]]
        matches(start, data) == (CHOOSE out \in {ordered(start, a1) : a1 \in {hits(data)}} : TRUE)
        block(start, read) ==
            IF read.kind = "exception" THEN [kind |-> "exception", results |-> <<>>]
            ELSE IF read.bytes = <<>> THEN [kind |-> "returned", results |-> <<>>]
            ELSE IF Len(valueBytes) > Len(read.bytes)
            THEN (IF env.ub = "fault" THEN [kind |-> "fault", results |-> <<>>]
                  ELSE [kind |-> "returned", results |-> <<result(start, Len(read.bytes))>>])
            ELSE matches(start, read.bytes)
        window(start, end) ==
            IF ~WLt(start, end) THEN [kind |-> "returned", results |-> <<>>]
            ELSE (CHOOSE out \in {block(start, a1) : a1 \in {SafeReadBytes(h, start, WSub(end, start), [fault |-> FALSE])}} : TRUE)
    IN  IF ~IsRegionScannable(h, r, options) THEN [kind |-> "returned", results |-> <<>>]
        ELSE window(ScanStart(h, r, options), ScanEnd(h, r, options))

RECURSIVE FirstScanRegions(_, _, _, _, _, _)
FirstScanRegions(h, regions, valueBytes, type, options, env) ==
    LET join(here, rest) ==
            IF here.kind # "returned" THEN here
            ELSE IF rest.kind # "returned" THEN rest
            ELSE [kind |-> "returned", results |-> here.results \o rest.results]
    IN  IF regions = <<>> THEN [kind |-> "returned", results |-> <<>>]
        ELSE (CHOOSE out \in {join(a1, a2) : a1 \in {FirstScanRegion(h, Head(regions), valueBytes, type, options, env)},
                                                a2 \in {FirstScanRegions(h, Tail(regions), valueBytes, type, options, env)}} : TRUE)

\* FirstScan.  kind "exception": StringToValue or the read threw.
FirstScan(h, value, type, options, env) ==
    LET scanFor(valueBytes) ==
            IF ~valueBytes.ok THEN [kind |-> "exception", results |-> <<>>]
            ELSE IF valueBytes.bytes = <<>> THEN [kind |-> "returned", results |-> <<>>]
            ELSE FirstScanRegions(h, GetMemoryRegions(h), valueBytes.bytes, type, options, env)
    IN  (CHOOSE out \in {scanFor(a1) : a1 \in {StringToValue(value, type)}} : TRUE)

\* ReadValueAtAddress: has = FALSE is std::nullopt.
ReadValueAtAddress(h, address, type) ==
    LET none == [has |-> FALSE, bytes |-> <<>>]
        size == CASE type \in {"int32", "int", "float"} -> 4
                  [] type \in {"int64", "double"} -> 8
                  [] type = "byte" -> 1
                  [] type = "string" -> StringReadSize
                  [] type = "bytes" -> BytesReadSize
                  [] OTHER -> 0
        typed == IF ~IsAddressReadable(h, address, W(size)) THEN none
                 ELSE [has |-> TRUE, bytes |-> PeekN(h.mem, address, size)]
        terminated(bytes) ==
            IF bytes = <<>> THEN none
            ELSE [has |-> TRUE, bytes |-> SubSeq(bytes, 1, IF \E i \in 1..Len(bytes) : bytes[i] = 0
                                                             THEN Least({i \in 1..Len(bytes) : bytes[i] = 0}) - 1
                                                             ELSE Len(bytes))]
        block(bytes) == IF type = "string" THEN terminated(bytes) ELSE [has |-> TRUE, bytes |-> bytes]
    IN  IF type \in {"int32", "int", "int64", "float", "double", "byte"} THEN typed
        ELSE IF type \in {"string", "bytes"}
        THEN (CHOOSE out \in {block(a1.bytes) : a1 \in {SafeReadBytes(h, address, W(size), [fault |-> FALSE])}} : TRUE)
        ELSE none

\* The order of two little-endian byte strings of one length read as
\* unsigned numbers: 1, -1 or 0.
RECURSIVE UnsignedOrder(_, _)
UnsignedOrder(a, b) ==
    IF a = <<>> THEN 0
    ELSE IF a[Len(a)] > b[Len(b)] THEN 1
    ELSE IF a[Len(a)] < b[Len(b)] THEN -1
    ELSE UnsignedOrder(SubSeq(a, 1, Len(a) - 1), SubSeq(b, 1, Len(b) - 1))

\* The order of two two's complement numbers, and of two IEEE 754 numbers
\* (expBits: the exponent bits in the two top bytes below the sign).
SignedOrder(a, b) ==
    LET flip(x) == [x EXCEPT ![Len(x)] = (@ + 128) % 256]
    IN  UnsignedOrder(flip(a), flip(b))

FloatOrder(a, b, size) ==
    LET magnitude(x) == [x EXCEPT ![size] = @ % 128]
        zero(x) == \A i \in 1..size : magnitude(x)[i] = 0
        infinity == IF size = 4 THEN <<0, 0, 128, 127>> ELSE <<0, 0, 0, 0, 0, 0, 240, 127>>
        nan(x) == UnsignedOrder(magnitude(x), infinity) = 1
        negative(x) == x[size] >= 128
    IN  IF nan(a) \/ nan(b) THEN 0
        ELSE IF zero(a) /\ zero(b) THEN 0
        ELSE IF negative(a) /\ ~negative(b) THEN -1
        ELSE IF ~negative(a) /\ negative(b) THEN 1
        ELSE IF negative(a) THEN UnsignedOrder(magnitude(b), magnitude(a))
        ELSE UnsignedOrder(magnitude(a), magnitude(b))

CompareValues(value1, value2, type) ==
    LET sized(n, order) == IF Len(value1) < n \/ Len(value2) < n THEN 0 ELSE order
    IN  IF value1 = <<>> \/ value2 = <<>> THEN 0
        ELSE IF type \in {"int32", "int"} THEN sized(4, SignedOrder(SubSeq(value1, 1, 4), SubSeq(value2, 1, 4)))
        ELSE IF type = "int64" THEN sized(8, SignedOrder(SubSeq(value1, 1, 8), SubSeq(value2, 1, 8)))
        ELSE IF type = "float" THEN sized(4, FloatOrder(SubSeq(value1, 1, 4), SubSeq(value2, 1, 4), 4))
        ELSE IF type = "double" THEN sized(8, FloatOrder(SubSeq(value1, 1, 8), SubSeq(value2, 1, 8), 8))
        ELSE IF type = "byte" THEN UnsignedOrder(<<value1[1]>>, <<value2[1]>>)
        ELSE IF Len(value1) # Len(value2) THEN (IF Len(value1) > Len(value2) THEN 1 ELSE -1)
        ELSE UnsignedOrder([i \in 1..Len(value1) |-> value1[Len(value1) + 1 - i]],
                           [i \in 1..Len(value2) |-> value2[Len(value2) + 1 - i]])

\* MemoryEngine::NextScan over previous results.  A comparison of more bytes
\* than a value holds reads past its end: env.stray is what it then finds.
\* kind "exception": StringToValue threw.
RECURSIVE NextScan(_, _, _, _, _)
NextScan(h, scanType, value, previousResults, env) ==
    LET prevResult == Head(previousResults)
        numeric(current, n, float) ==
            IF Len(current) < n THEN env.stray
            ELSE LET order == IF float THEN FloatOrder(SubSeq(current, 1, n), SubSeq(prevResult.value, 1, n), n)
                              ELSE SignedOrder(SubSeq(current, 1, n), SubSeq(prevResult.value, 1, n))
                 IN  (scanType = "increased" /\ order = 1) \/ (scanType = "decreased" /\ order = -1)
        exact(current, valueToCompare) ==
            IF valueToCompare.bytes = <<>> THEN FALSE
            ELSE IF Len(valueToCompare.bytes) < Len(current) THEN env.stray
            ELSE SubSeq(valueToCompare.bytes, 1, Len(current)) = current
        match(current) ==
            IF scanType = "exact" THEN exact(current, StringToValue(value, prevResult.type))
            ELSE IF scanType = "unchanged" THEN current = prevResult.value
            ELSE IF scanType = "changed" THEN current # prevResult.value
            ELSE IF prevResult.type = "int32" THEN numeric(current, 4, FALSE)
            ELSE IF prevResult.type = "int64" THEN numeric(current, 8, FALSE)
            ELSE IF prevResult.type = "float" THEN numeric(current, 4, TRUE)
            ELSE IF prevResult.type = "double" THEN numeric(current, 8, TRUE)
            ELSE FALSE
        keep(current, rest) ==
            IF rest.kind # "returned" THEN rest
            ELSE IF current = <<>> \/ Len(current) # Len(prevResult.value) THEN rest
            ELSE IF scanType = "exact" /\ ~StringToValue(value, prevResult.type).ok
            THEN [kind |-> "exception", results |-> <<>>]
            ELSE IF match(current)
            THEN [kind |-> "returned",
                  results |-> <<[address |-> prevResult.address, value |-> current, type |-> prevResult.type,
                                 previousValue |-> prevResult.value]>> \o rest.results]
            ELSE rest
    IN  IF previousResults = <<>> THEN [kind |-> "returned", results |-> <<>>]
        ELSE (CHOOSE out \in {keep(a1, a2) : a1 \in {SafeReadBytes(h, prevResult.address, W(Len(prevResult.value)), [fault |-> FALSE]).bytes},
                                                a2 \in {NextScan(h, scanType, value, Tail(previousResults), env)}} : TRUE)

\* The response of memory.scan: the results it lists.
ScanResponse(success, results, error) ==
    [kind |-> "response", success |-> success, results |-> results, error |-> error]

\* The data of a memory.scan response as HandleMemoryScan writes it, which a
\* client sends back as previousResults.
Chars_address == <<"a", "d", "d", "r", "e", "s", "s">>
Chars_value == <<"v", "a", "l", "u", "e">>
Chars_previousValue == <<"p", "r", "e", "v", "i", "o", "u", "s", "V", "a", "l", "u", "e">>
Chars_previousResults == <<"p", "r", "e", "v", "i", "o", "u", "s", "R", "e", "s", "u", "l", "t", "s">>
Chars_module == <<"m", "o", "d", "u", "l", "e">>

Field(key, text) == <<Quote>> \o key \o <<Quote, ":", Quote>> \o text \o <<Quote>>

RenderResult(result, isFirstScan) ==
    LET module == FindModule(ProcessModules, result.address)
    IN  <<"{">> \o Field(Chars_address, <<"0", "x">> \o ToHex(result.address))
        \o <<",">> \o Field(Chars_value, ValueToString(result.value, result.type))
        \o (IF ~isFirstScan /\ result.previousValue # <<>>
            THEN <<",">> \o Field(Chars_previousValue, ValueToString(result.previousValue, result.type))
            ELSE <<>>)
        \o (IF module.name # "" THEN <<",">> \o Field(Chars_module, <<module.name>> \o module.offset) ELSE <<>>)
        \o <<"}">>

RECURSIVE RenderResultsFrom(_, _, _)
RenderResultsFrom(results, i, isFirstScan) ==
    IF i > Len(results) THEN <<>>
    ELSE (IF i > 1 THEN <<",">> ELSE <<>>) \o RenderResult(results[i], isFirstScan)
         \o RenderResultsFrom(results, i + 1, isFirstScan)

RenderResults(results, isFirstScan) == <<"[">> \o RenderResultsFrom(results, 1, isFirstScan) \o <<"]">>

\* The next-scan branch of HandleMemoryScan: one object of previousResults.
\* keep = FALSE: the object adds no result.
NextScanObject(h, objStr, valueStr, typeStr, scanTypeStr) ==
    LET skip == [keep |-> FALSE, result |-> <<>>]
        addrStr == ExtractJsonValue(objStr, Chars_address)
        address == Stoull16(addrStr)
        filter(currentValueOpt, previousValue, targetValue) ==
            LET currentValue == currentValueOpt.bytes
                include == IF scanTypeStr = "exact" THEN currentValue = targetValue.bytes
                           ELSE IF scanTypeStr = "changed" THEN currentValue # previousValue.bytes
                           ELSE IF scanTypeStr = "unchanged" THEN currentValue = previousValue.bytes
                           ELSE IF scanTypeStr = "increased" THEN CompareValues(currentValue, previousValue.bytes, typeStr) > 0
                           ELSE IF scanTypeStr = "decreased" THEN CompareValues(currentValue, previousValue.bytes, typeStr) < 0
                           ELSE TRUE
            IN  IF ~currentValueOpt.has THEN skip
                ELSE IF ~previousValue.ok \/ (scanTypeStr = "exact" /\ ~targetValue.ok) THEN skip
                ELSE IF include
                THEN [keep |-> TRUE, result |-> [address |-> address.value, value |-> currentValue, type |-> typeStr,
                                                 previousValue |-> previousValue.bytes]]
                ELSE skip
    IN  IF addrStr = <<>> \/ ~address.ok THEN skip
        ELSE (CHOOSE out \in {filter(a1, a2, a3) : a1 \in {ReadValueAtAddress(h, address.value, typeStr)},
                                                    a2 \in {StringToValue(ExtractJsonValue(objStr, Chars_value), typeStr)},
                                                    a3 \in {StringToValue(valueStr, typeStr)}} : TRUE)

\* The loop over the objects of prevResultsStr from position pos.
RECURSIVE NextScanObjects(_, _, _, _, _, _)
NextScanObjects(h, prevResultsStr, pos, valueStr, typeStr, scanTypeStr) ==
    LET start == Find(prevResultsStr, <<"{">>, pos)
        endPos == IF start = 0 THEN 0 ELSE Find(prevResultsStr, <<"}">>, start)
        join(here, rest) == IF here.keep THEN <<here.result>> \o rest ELSE rest
    IN  IF start = 0 \/ endPos = 0 THEN <<>>
        ELSE (CHOOSE out \in {join(a1, a2) : a1 \in {NextScanObject(h, objStr, valueStr, typeStr, scanTypeStr) : objStr \in {SubSeq(prevResultsStr, start, endPos)}},
                                                a2 \in {NextScanObjects(h, prevResultsStr, endPos + 1, valueStr, typeStr, scanTypeStr)}} : TRUE)

\* HandleMemoryScan: params is the text of the request, of which the model
\* keeps the previousResults member; the other members are given as the
\* texts ExtractJsonValue finds for them.
HandleMemoryScan(h, params, valueStr, typeStr, scanTypeStr, isFirstScan, startStr, endStr, writable, env) ==
    LET start == IF startStr = <<>> THEN [ok |-> TRUE, value |-> W(0)] ELSE Stoull16(startStr)
        end == IF endStr = <<>> THEN [ok |-> TRUE, value |-> W(0)] ELSE Stoull16(endStr)
        filterWritable == IF writable = "yes" THEN "Yes" ELSE IF writable = "no" THEN "No" ELSE "Any"
        first(r) ==
            IF r.kind = "fault" THEN [ScanResponse(FALSE, <<>>, "") EXCEPT !.kind = "fault"]
            ELSE IF r.kind = "exception" THEN ScanResponse(FALSE, <<>>, "Scan error")
            ELSE ScanResponse(TRUE, r.results, "")
        stripped(s) ==
            LET from == (IF FindFirstNotOf(s, {" "}, 1) = 0 THEN Len(s) + 1 ELSE FindFirstNotOf(s, {" "}, 1))
                       + (IF FindFirstNotOf(s, {" "}, 1) # 0 /\ s[FindFirstNotOf(s, {" "}, 1)] = "[" THEN 1 ELSE 0)
                to == IF from <= Len(s) /\ s[Len(s)] = "]" THEN Len(s) - 1 ELSE Len(s)
            IN  SubSeq(s, from, to)
    IN  IF ~start.ok \/ ~end.ok THEN ScanResponse(FALSE, <<>>, "Scan error")
        ELSE IF ~isFirstScan
        THEN (CHOOSE out \in {ScanResponse(TRUE, NextScanObjects(h, a2, 1, valueStr, typeStr, scanTypeStr), "") : a2 \in {stripped(a1) : a1 \in {ExtractJsonValue(params, Chars_previousResults)}}} : TRUE)
        ELSE IF valueStr = <<>> \/ typeStr = "" THEN ScanResponse(FALSE, <<>>, "Missing value or type for first scan")
        ELSE (CHOOSE out \in {first(a1) : a1 \in {FirstScan(h, valueStr, typeStr, ScanOptions(start.value, end.value, filterWritable), env)}} : TRUE)

-----------------------------------------------------------------------------
(* memory.scan as a state machine: first scans, next scans over the results *)
(* of the last first scan, and typed writes in between.                      *)

\* The values scanned for, as sent and as meant (meant: the encoding of the
\* value in its type): numbers of the numeric types and a text that is no
\* number.
ScanValues ==
    {[value |-> <<"0">>, type |-> "int32", meant |-> <<0, 0, 0, 0>>, wellFormed |-> TRUE],
     [value |-> <<"7">>, type |-> "int32", meant |-> <<7, 0, 0, 0>>, wellFormed |-> TRUE],
     [value |-> <<"0">>, type |-> "int64", meant |-> <<0, 0, 0, 0, 0, 0, 0, 0>>, wellFormed |-> TRUE],
     [value |-> <<"0">>, type |-> "double", meant |-> <<0, 0, 0, 0, 0, 0, 0, 0>>, wellFormed |-> TRUE],
     [value |-> <<"7">>, type |-> "byte", meant |-> <<7>>, wellFormed |-> TRUE],
     [value |-> <<"z", "z">>, type |-> "int32", meant |-> <<>>, wellFormed |-> FALSE]}

\* The ranges scanned (from, to: the offsets of the range in the read/write
\* region): the last two slots, the first half of the last slot, and every
\* writable region.
ScanWindows ==
    {[startStr |-> <<"A", "0", "0", "0", "1", "0">>, endStr |-> <<"A", "0", "0", "0", "2", "0">>, writable |-> "", from |-> 16, to |-> 32],
     [startStr |-> <<"A", "0", "0", "0", "1", "8">>, endStr |-> <<"A", "0", "0", "0", "1", "C">>, writable |-> "", from |-> 24, to |-> 28],
     [startStr |-> <<>>, endStr |-> <<>>, writable |-> "yes", from |-> 0, to |-> 32]}

\* The writes a client makes between its scans.
ScanWrites ==
    {[address |-> <<"A", "0", "0", "0", "1", "8">>, value |-> <<"7">>, type |-> "int32"],
     [address |-> <<"A", "0", "0", "0", "1", "8">>, value |-> <<"0">>, type |-> "double"]}

ScanTypes == {"exact", "changed", "unchanged", "increased"}

\* The request of a next scan over previous results, as a client sends it.
NextScanParams(previousResults) ==
    <<"{", Quote>> \o Chars_previousResults \o <<Quote, ":">> \o RenderResults(previousResults, TRUE) \o <<"}">>

\* What a next scan over previous results returns, through the command and
\* through MemoryEngine::NextScan.
NextScanThrough(via, h, scanType, value, type, previousResults) ==
    IF via = "command"
    THEN (CHOOSE out \in {HandleMemoryScan(h, a1, value, type, scanType, FALSE, <<>>, <<>>, "", [ub |-> "fault"]) : a1 \in {NextScanParams(previousResults)}} : TRUE)
    ELSE LET r == NextScan(h, scanType, value, previousResults, [stray |-> FALSE])
         IN  IF r.kind = "exception" THEN ScanResponse(FALSE, <<>>, "Scan error") ELSE ScanResponse(TRUE, r.results, "")

FirstScanCommand ==
    /\ engine = "running"
    /\ \E v \in ScanValues, w \in ScanWindows :
       \E ub \in (IF w.to - w.from < 8 THEN UndefinedOutcomes ELSE {"fault"}) :
       \E r \in {HandleMemoryScan(Host, <<"{", "}">>, v.value, v.type, "exact", TRUE, w.startStr, w.endStr, w.writable, [ub |-> ub])} :
          /\ lastOp' = CmdOp("memory.scan", [value |-> v, window |-> w, wellFormed |-> v.wellFormed], r)
          /\ scan' = [op |-> "first", value |-> v, results |-> r.results, mem |-> mem]
    /\ UNCHANGED <<is64Bit, mem, prot, trampolines, hooks, addressToName, engine, before, installs, threads>>

NextScanCommand ==
    /\ engine = "running"
    /\ scan.op = "first"
    /\ \E scanType \in ScanTypes, via \in {"command", "engine"} :
       \E r \in {NextScanThrough(via, Host, scanType, scan.value.value, scan.value.type, scan.results)} :
          lastOp' = CmdOp("memory.scan.next", [scanType |-> scanType, via |-> via, value |-> scan.value,
                                                previous |-> scan.results, scannedMem |-> scan.mem], r)
    /\ UNCHANGED <<is64Bit, mem, prot, trampolines, hooks, addressToName, engine, before, installs, scan, threads>>

ScanWriteCommand ==
    /\ engine = "running"
    /\ \E q \in ScanWrites : \E r \in {HandleMemoryWrite(Host, q.address, q.value, q.type)} :
          /\ mem' = r.h.mem
          /\ prot' = r.h.prot
          /\ lastOp' = CmdOp("memory.write", q, r.response)
    /\ UNCHANGED <<is64Bit, trampolines, hooks, addressToName, engine, before, installs, scan, threads>>

NextScanning ==
    \/ FirstScanCommand
    \/ NextScanCommand
    \/ ScanWriteCommand

SpecScan == InitCommands /\ [][NextScanning]_vars

-----------------------------------------------------------------------------
(* Properties of memory.scan.                                                *)

AddressSeq(results) == [i \in 1..Len(results) |-> results[i].address]

\* Whether a is b with some of its members left out.
RECURSIVE IsSubsequence(_, _)
IsSubsequence(a, b) ==
    IF a = <<>> THEN TRUE
    ELSE IF b = <<>> THEN FALSE
    ELSE IF Head(a) = Head(b) THEN IsSubsequence(Tail(a), Tail(b))
    ELSE IsSubsequence(a, Tail(b))

\* The addresses of the scanned range that held the encoding of the value
\* when the scan was made.
HoldingAddresses ==
    LET meant == lastOp.args.value.meant
        data == lastOp.pre["data"]
    IN  {WPlus(RegionBase("data"), i) : i \in {j \in lastOp.args.window.from..(lastOp.args.window.to - Len(meant)) :
                                                   SubSeq(data, j + 1, j + Len(meant)) = meant}}

\* C7: scan correctness: a first scan for (V, type) returns every address of
\* the scanned regions that holds the encoding of V, and a next scan with
\* scanType unchanged over those results, with no write in between, returns
\* the same addresses.
C7_ScanCorrect ==
    /\ (lastOp.op = "memory.scan" /\ lastOp.args.wellFormed) =>
          /\ lastOp.response.kind = "response"
          /\ HoldingAddresses \subseteq SeqRange(AddressSeq(lastOp.response.results))
    /\ (lastOp.op = "memory.scan.next" /\ lastOp.args.scanType = "unchanged" /\ lastOp.args.scannedMem = lastOp.pre) =>
          AddressSeq(lastOp.response.results) = AddressSeq(lastOp.args.previous)

\* The first scan is exact for the values that StringToValue encodes in
\* their type and a range that is no shorter than the value, and
\* MemoryEngine::NextScan with scanType unchanged then returns its results.
C7_EncodedValuesScanCorrect ==
    /\ (lastOp.op = "memory.scan" /\ lastOp.args.wellFormed
          /\ StringToValue(lastOp.args.value.value, lastOp.args.value.type).bytes = lastOp.args.value.meant
          /\ Len(lastOp.args.value.meant) <= lastOp.args.window.to - lastOp.args.window.from) =>
          /\ lastOp.response.kind = "response"
          /\ HoldingAddresses = SeqRange(AddressSeq(lastOp.response.results))
    /\ (lastOp.op = "memory.scan.next" /\ lastOp.args.scanType = "unchanged" /\ lastOp.args.scannedMem = lastOp.pre
          /\ lastOp.args.via = "engine"
          /\ \A i \in 1..Len(lastOp.args.previous) : PeekN(lastOp.pre, lastOp.args.previous[i].address, Len(lastOp.args.previous[i].value)) = lastOp.args.previous[i].value) =>
          AddressSeq(lastOp.response.results) = AddressSeq(lastOp.args.previous)

\* The law of C8 for the previous results R and the results of the next
\* scans with scanType changed and unchanged.
PartitionLaw(R, changed, unchanged) ==
    /\ SeqRange(AddressSeq(changed)) \cap SeqRange(AddressSeq(unchanged)) = {}
    /\ IsSubsequence(AddressSeq(changed), AddressSeq(R))
    /\ IsSubsequence(AddressSeq(unchanged), AddressSeq(R))
    /\ \A i \in 1..Len(R) :
          R[i].address \notin SeqRange(AddressSeq(changed)) \cup SeqRange(AddressSeq(unchanged)) =>
              SafeReadBytes(Host, R[i].address, W(Len(R[i].value)), [fault |-> FALSE]).bytes = <<>>

NextScanLaw ==
    \A changed \in {NextScanThrough(lastOp.args.via, Host, "changed", lastOp.args.value.value, lastOp.args.value.type, lastOp.args.previous)} :
    \A unchanged \in {NextScanThrough(lastOp.args.via, Host, "unchanged", lastOp.args.value.value, lastOp.args.value.type, lastOp.args.previous)} :
        PartitionLaw(lastOp.args.previous, changed.results, unchanged.results)

\* C8: next-scan monotonicity: over previous results R the next scans with
\* scanType changed and unchanged return disjoint results, each an address
\* of R in R's order at most once, and an address of R is in neither only
\* if it can no longer be read.
C8_NextScanPartition == lastOp.op = "memory.scan.next" => NextScanLaw

\* The law holds of MemoryEngine::NextScan.
C8_EngineNextScanPartition == (lastOp.op = "memory.scan.next" /\ lastOp.args.via = "engine") => NextScanLaw

-----------------------------------------------------------------------------
(* Prologues.  The target function starts with a stream of encoded           *)
(* instructions; the hook installer measures it with LengthDisassembler and  *)
(* copies it into the trampoline.                                            *)

\* Encoded instructions with their sizes by the instruction set reference.
\* form: "rel8" a short-form relative jump, "uncovered" a first opcode byte of
\* no opcode table GetOpcodeSize names (size 0: there is nothing to measure),
\* "listed" an opcode whose size the immediate/ModR-M rules give.
Encodings ==
    {[bytes |-> <<85>>,                   size |-> 1, form |-> "plain"],      \* 55          push rbp
     [bytes |-> <<232, 16, 0, 0, 0>>,     size |-> 5, form |-> "listed"],     \* E8 rel32    call
     [bytes |-> <<233, 16, 0, 0, 0>>,     size |-> 5, form |-> "listed"],     \* E9 rel32    jmp
     [bytes |-> <<235, 6>>,               size |-> 2, form |-> "rel8"],       \* EB rel8     jmp short
     [bytes |-> <<116, 6>>,               size |-> 2, form |-> "rel8"],       \* 74 rel8     je short
     [bytes |-> <<106, 8>>,               size |-> 2, form |-> "listed"],     \* 6A imm8     push
     [bytes |-> <<104, 1, 0, 0, 0>>,      size |-> 5, form |-> "listed"],     \* 68 imm32    push
     [bytes |-> <<176, 1>>,               size |-> 2, form |-> "listed"],     \* B0 imm8     mov al
     [bytes |-> <<184, 1, 0, 0, 0>>,      size |-> 5, form |-> "listed"],     \* B8 imm32    mov eax
     [bytes |-> <<194, 8, 0>>,            size |-> 3, form |-> "listed"],     \* C2 imm16    ret
     [bytes |-> <<137, 229>>,             size |-> 2, form |-> "listed"],     \* 89 E5       mov ebp, esp
     [bytes |-> <<139, 69, 252>>,         size |-> 3, form |-> "listed"],     \* 8B 45 FC    mov eax, [ebp-4]
     [bytes |-> <<139, 5, 0, 16, 0, 0>>,  size |-> 6, form |-> "listed"],     \* 8B 05 disp32
     [bytes |-> <<139, 4, 36>>,           size |-> 3, form |-> "listed"],     \* 8B 04 24    mov eax, [esp]
     [bytes |-> <<128, 196, 1>>,          size |-> 3, form |-> "listed"],     \* 80 C4 01    add ah, 1
     [bytes |-> <<129, 236, 0, 1, 0, 0>>, size |-> 6, form |-> "listed"],     \* 81 EC imm32 sub esp
     [bytes |-> <<214>>,                  size |-> 0, form |-> "uncovered"]}  \* D6

\* The second instruction of a stream.
SecondEncodings == {e \in Encodings : e.bytes[1] \in {85, 235, 116, 214, 184}}

\* Runs of prefix bytes in front of the first instruction: none, REX.W, an
\* operand-size override and a segment override.
PrefixRuns == {<<>>, <<72>>, <<102, 100>>}

\* How many bytes of padding (NOP) follow the two instructions.
PaddingLength == 16

StreamBytes(p) == p.prefix \o p.first.bytes \o p.second.bytes \o NopBytes(PaddingLength)

Streams == [prefix : PrefixRuns, first : Encodings, second : SecondEncodings]

PrologueTarget == RegionBase(CodeRegion)

InitPrologue ==
    /\ is64Bit \in BOOLEAN
    /\ before \in Streams
    /\ mem = [InitMem EXCEPT ![CodeRegion] = StreamBytes(before)]
    /\ prot = InitProt
    /\ trampolines = <<>>
    /\ hooks = EmptyMap
    /\ addressToName = EmptyMap
    /\ engine = "running"
    /\ lastOp = [op |-> "none"]
    /\ installs = 0
    /\ scan = NoScan
    /\ threads = NoThreads

\* LengthDisassembler::GetLength on the stream and on its first opcode byte.
MeasureLength ==
    /\ lastOp' = [op |-> "length",
                  length |-> GetLength(mem[CodeRegion], 0),
                  opcodeLength |-> GetLength(mem[CodeRegion], Len(before.prefix)),
                  bytes |-> mem[CodeRegion]]
    /\ UNCHANGED <<is64Bit, mem, prot, trampolines, hooks, addressToName, engine, before, installs, scan, threads>>

\* HookManager::InstallHook on the function the stream starts.
PrologueInstall ==
    /\ engine = "running"
    /\ installs < MaxInstalls
    /\ \E type \in HookTypes, slot \in AllocAnswers :
       \E vpOk \in (IF slot = "fail" THEN {TRUE} ELSE BOOLEAN) :
       \E r \in {HM_InstallHook(HookState, "a", PrologueTarget, Detour, type,
                                  [slot |-> slot, vpOk |-> vpOk, stackAddr |-> Wd(65280, 25, 0, 0)])} :
          /\ SetHookState(r.s)
          /\ lastOp' = [op |-> "install", type |-> type, ret |-> r.ret,
                        hookSize |-> CalculateHookSize(ResolveType(type)),
                        prologueLength |-> PrologueLength(r.s.trampolines, PrologueTarget),
                        pre |-> HookState,
                        hostRefused |-> (slot = "fail" \/ ~vpOk
                                           \/ (is64Bit /\ type = "PUSH_RET")
                                           \/ "a" \in DOMAIN hooks)]
          /\ installs' = IF r.ret THEN installs + 1 ELSE installs
          /\ engine' = IF r.fault THEN "crashed" ELSE engine
    /\ UNCHANGED <<is64Bit, before, scan, threads>>

\* HookManager::RemoveHook of that hook.
PrologueRemove ==
    /\ engine = "running"
    /\ \E env \in ProtectAnswers("a") :
       \E r \in {HM_RemoveHook(HookState, "a", env)} :
          /\ SetHookState(r.s)
          /\ lastOp' = [op |-> "remove", ret |-> r.ret]
    /\ UNCHANGED <<is64Bit, engine, before, installs, scan, threads>>

NextPrologue == MeasureLength \/ PrologueInstall \/ PrologueRemove

SpecPrologue == InitPrologue /\ [][NextPrologue]_vars

\* The instructions of the stream with the offsets they start at, by their
\* sizes in the instruction set reference; the padding is one-byte NOPs.
SecondOffset == Len(before.prefix) + before.first.size

\* Whether the second instruction is among those a hook of hookSize bytes
\* overwrites: it starts before the hook ends and the first one is measurable.
SecondIsCopied(hookSize) == before.first.form # "uncovered" /\ SecondOffset < hookSize

FormCopied(form, hookSize) ==
    \/ before.first.form = form
    \/ SecondIsCopied(hookSize) /\ before.second.form = form

\* The install changed nothing: target bytes, trampolines and registry.
NothingInstalled == ~lastOp.ret /\ HookState = lastOp.pre

\* GetLength was applied to the stream as the function holds it unhooked.
Measured == lastOp.op = "length" /\ lastOp.bytes = StreamBytes(before)

\* C21: a short-form relative jump (EB rel8, 70..7F rel8) among the prologue
\* instructions to be copied makes install fail with the target bytes and the
\* registry unchanged.
C21_ShortBranchRejected ==
    (lastOp.op = "install" /\ FormCopied("rel8", lastOp.hookSize)) => NothingInstalled

\* The prologue length of a successful install is the smallest sum of the
\* lengths GetLength returns that is >= the hook size.
RECURSIVE LengthSums(_, _, _)
LengthSums(bytes, n, hookSize) ==
    IF n >= hookSize THEN {n} ELSE {n} \cup LengthSums(bytes, n + GetLength(bytes, n), hookSize)

SmallestSumOfMeasuredLengths ==
    (lastOp.op = "install" /\ lastOp.ret) =>
        /\ lastOp.prologueLength >= lastOp.hookSize
        /\ lastOp.prologueLength \in LengthSums(lastOp.pre.mem[CodeRegion], 0, lastOp.hookSize)
        /\ \A n \in LengthSums(lastOp.pre.mem[CodeRegion], 0, lastOp.hookSize) :
              n >= lastOp.hookSize => n = lastOp.prologueLength

\* C22: the length of an instruction whose first opcode byte is in no covered
\* table is 0, an install that sums such a length fails and changes nothing,
\* and a successful install saves the smallest sum of whole instruction
\* lengths >= hook_size.
C22_UnknownOpcodeFailsInstall ==
    /\ (Measured /\ before.first.form = "uncovered") => lastOp.opcodeLength = 0
    /\ (lastOp.op = "install" /\ FormCopied("uncovered", lastOp.hookSize)) => NothingInstalled
    /\ SmallestSumOfMeasuredLengths

\* C23: length returns the exact encoded size of each covered instruction
\* (E8/E9 5, EB 2, 6A 2, 68 5, B0..B7 2, B8..BF 5, C2 3, ModR/M opcodes by the
\* standard table plus their immediate), and a run of prefix bytes in front
\* adds its own byte count.
C23_ExactEncodedSize ==
    (Measured /\ (before.first.form = "listed" \/ before.first.bytes = <<235, 6>>)) =>
        /\ lastOp.opcodeLength = before.first.size
        /\ lastOp.length = Len(before.prefix) + before.first.size

\* A run of prefix bytes adds its own byte count to what GetLength returns
\* for the bytes behind it.
C23_PrefixesAddTheirCount ==
    Measured => lastOp.length = Len(before.prefix) + lastOp.opcodeLength

-----------------------------------------------------------------------------
(* The two critical sections.  Threads call the hook manager; each call is   *)
(* followed lock by lock: HookManager::criticalSection (made in the          *)
(* constructor) and DetoursLite::criticalSection (made by the lazy           *)
(* DetoursLite::Initialize).                                                 *)

\* How many calls one thread makes.
MaxCalls == 2

LockCalls == {"install", "remove", "enable", "disable", "toggle", "removeAll", "isHookedName", "isHookedAddress"}

\* The calls that go through a HookManager function that enters the registry
\* lock; IsHooked(uintptr_t) goes straight to DetoursLite::IsHooked.
LockTarget == RegionBase(CodeRegion)

\* What EnterCriticalSection may do with a critical section that was never
\* initialized: return, wait for ever, or raise an access violation.
UninitializedEnter == {"entered", "hang", "fault"}

\* threads in this state machine.  pc, call: each thread's position and call
\* (inner: the HookManager function it is in; mix: the calls of other threads
\* that ran while it did; existed: the hook was registered when it began);
\* registryLock: the owner of HookManager::criticalSection (0: free);
\* initialized: DetoursLite::initialized; section: DetoursLite::criticalSection
\* (init: InitializeCriticalSection has run on it; owner; inits: how often it
\* was initialized; enteredBefore: a thread entered it uninitialized).
IdleCall == [op |-> "none", inner |-> "none", ret |-> FALSE, mix |-> {}, existed |-> FALSE]

InitLockThreads ==
    [pc           |-> [t \in Threads |-> "idle"],
     call         |-> [t \in Threads |-> IdleCall],
     calls        |-> [t \in Threads |-> 0],
     registryLock |-> 0,
     initialized  |-> FALSE,
     section      |-> [init |-> FALSE, owner |-> 0, inits |-> 0, enteredBefore |-> FALSE]]

\* before in this state machine: flips: the toggles that found the hook and
\* returned since it was installed, modulo 2; pure: no enable or disable was
\* called since.
InitLocks ==
    /\ is64Bit \in BOOLEAN
    /\ mem = InitMem
    /\ prot = InitProt
    /\ trampolines = <<>>
    /\ hooks = EmptyMap
    /\ addressToName = EmptyMap
    /\ engine = "running"
    /\ lastOp = [op |-> "none"]
    /\ before = [flips |-> 0, pure |-> FALSE]
    /\ installs = 0
    /\ scan = NoScan
    /\ threads = InitLockThreads

InFlight(t) == threads.pc[t] \notin {"idle", "hung"}

\* A thread calls a function of the hook manager.
BeginCall(t) ==
    /\ engine = "running"
    /\ threads.pc[t] = "idle"
    /\ threads.calls[t] < MaxCalls
    /\ \E op \in LockCalls :
          /\ op = "install" => installs < MaxInstalls
          /\ threads' = [threads EXCEPT
                            !.pc[t] = IF op = "isHookedAddress" THEN "dl_enter" ELSE "hm_enter",
                            !.calls[t] = @ + 1,
                            !.call = [u \in Threads |->
                                         IF u = t
                                         THEN [op |-> op, inner |-> op, ret |-> FALSE,
                                               mix |-> {threads.call[v].op : v \in {w \in Threads \ {t} : threads.pc[w] # "idle"}},
                                               existed |-> "a" \in DOMAIN hooks]
                                         ELSE IF threads.pc[u] # "idle"
                                         THEN [threads.call[u] EXCEPT !.mix = @ \cup {op}]
                                         ELSE threads.call[u]]]
    /\ UNCHANGED <<is64Bit, mem, prot, trampolines, hooks, addressToName, engine, lastOp, before, installs, scan>>

\* EnterCriticalSection(&criticalSection) of the hook manager.
HM_Enter(t) ==
    /\ engine = "running"
    /\ threads.pc[t] = "hm_enter"
    /\ threads.registryLock = 0
    /\ threads' = [threads EXCEPT !.pc[t] = "hm_body", !.registryLock = t]
    /\ UNCHANGED <<is64Bit, mem, prot, trampolines, hooks, addressToName, engine, lastOp, before, installs, scan>>

\* The code of a HookManager function between its EnterCriticalSection and
\* its call into DetoursLite, or, where it makes none, its return.
HM_Body(t) ==
    /\ engine = "running"
    /\ threads.pc[t] = "hm_body"
    /\ LET inner == threads.call[t].inner
           registered == "a" \in DOMAIN hooks
           leave(ret) == [threads EXCEPT !.pc[t] = "return", !.registryLock = 0, !.call[t].ret = ret]
           again(fn) == [threads EXCEPT !.pc[t] = "hm_enter", !.registryLock = 0, !.call[t].inner = fn]
           into == [threads EXCEPT !.pc[t] = "dl_init"]
       IN  threads' =
              CASE inner = "toggle" ->
                      IF ~registered THEN leave(FALSE)
                      ELSE IF hooks["a"].isActive THEN again("disable") ELSE again("enable")
                [] inner = "removeAll" -> IF registered THEN again("remove") ELSE leave(TRUE)
                [] inner = "isHookedName" -> leave(registered)
                [] inner = "install" ->
                      IF registered \/ LockTarget \in DOMAIN addressToName THEN leave(FALSE) ELSE into
                [] OTHER -> IF ~registered THEN leave(FALSE) ELSE into
    /\ UNCHANGED <<is64Bit, mem, prot, trampolines, hooks, addressToName, engine, lastOp, before, installs, scan>>

\* DetoursLite::Initialize: the test of `initialized`.
DL_Initialize(t) ==
    /\ engine = "running"
    /\ threads.pc[t] = "dl_init"
    /\ threads' = [threads EXCEPT !.pc[t] = IF threads.initialized THEN "dl_enter" ELSE "dl_init_cs"]
    /\ UNCHANGED <<is64Bit, mem, prot, trampolines, hooks, addressToName, engine, lastOp, before, installs, scan>>

\* DetoursLite::Initialize: InitializeCriticalSection(&criticalSection).
DL_InitializeCriticalSection(t) ==
    /\ engine = "running"
    /\ threads.pc[t] = "dl_init_cs"
    /\ threads' = [threads EXCEPT !.pc[t] = "dl_init_flag",
                                  !.section.init = TRUE, !.section.owner = 0,
                                  !.section.inits = @ + 1]
    /\ UNCHANGED <<is64Bit, mem, prot, trampolines, hooks, addressToName, engine, lastOp, before, installs, scan>>

\* DetoursLite::Initialize: initialized = true.
DL_SetInitialized(t) ==
    /\ engine = "running"
    /\ threads.pc[t] = "dl_init_flag"
    /\ threads' = [threads EXCEPT !.pc[t] = "dl_enter", !.initialized = TRUE]
    /\ UNCHANGED <<is64Bit, mem, prot, trampolines, hooks, addressToName, engine, lastOp, before, installs, scan>>

\* EnterCriticalSection(&criticalSection) of DetoursLite.
DL_Enter(t) ==
    /\ engine = "running"
    /\ threads.pc[t] = "dl_enter"
    /\ IF threads.section.init
       THEN /\ threads.section.owner = 0
            /\ threads' = [threads EXCEPT !.pc[t] = "dl_body", !.section.owner = t]
            /\ engine' = engine
       ELSE \E outcome \in UninitializedEnter :
               /\ threads' = [threads EXCEPT
                                 !.pc[t] = CASE outcome = "entered" -> "dl_body"
                                             [] outcome = "hang" -> "hung"
                                             [] OTHER -> "idle",
                                 !.section.owner = IF outcome = "entered" THEN t ELSE @,
                                 !.section.enteredBefore = TRUE]
               /\ engine' = IF outcome = "fault" THEN "crashed" ELSE engine
    /\ UNCHANGED <<is64Bit, mem, prot, trampolines, hooks, addressToName, lastOp, before, installs, scan>>

\* The HookManager function of a thread applied to the hook state.
LockApply(s, inner, env) ==
    LET plain(r) == [s |-> r.s, ret |-> r.ret, fault |-> FALSE]
    IN  CASE inner = "install" -> HM_InstallHook(s, "a", LockTarget, Detour, "AUTO", env)
          [] inner = "remove"  -> plain(HM_RemoveHook(s, "a", env))
          [] inner = "enable"  -> plain(HM_EnableHook(s, "a"))
          [] inner = "disable" -> plain(HM_DisableHook(s, "a", env))
          [] OTHER -> [s |-> s, ret |-> DL_IsHooked(s.trampolines, LockTarget), fault |-> FALSE]

\* The DetoursLite function up to its LeaveCriticalSection and, under the
\* registry lock the caller still holds, the update of the registry.
DL_Body(t) ==
    /\ engine = "running"
    /\ threads.pc[t] = "dl_body"
    /\ \E slot \in {IF mem["tNear"] = <<>> THEN "tNear" ELSE IF mem["tFar"] = <<>> THEN "tFar" ELSE "fail"} :
       \E r \in {LockApply(HookState, threads.call[t].inner, [slot |-> slot, vpOk |-> TRUE, stackAddr |-> Wd(65280, 25, 0, 0)])} :
          /\ SetHookState(r.s)
          /\ threads' = [threads EXCEPT
                            !.pc[t] = IF threads.call[t].inner = "isHookedAddress" THEN "return" ELSE "hm_leave",
                            !.call[t].ret = r.ret,
                            !.section.owner = IF @ = t THEN 0 ELSE @]
          /\ installs' = IF threads.call[t].inner = "install" /\ r.ret THEN installs + 1 ELSE installs
          /\ before' = IF threads.call[t].inner = "install" /\ r.ret
                        THEN [flips |-> 0, pure |-> TRUE]
                        ELSE IF threads.call[t].op \in {"enable", "disable"}
                        THEN [before EXCEPT !.pure = FALSE]
                        ELSE before
          /\ engine' = IF r.fault THEN "crashed" ELSE engine
    /\ UNCHANGED <<is64Bit, lastOp, scan>>

\* LeaveCriticalSection(&criticalSection) of the hook manager.
HM_Leave(t) ==
    /\ engine = "running"
    /\ threads.pc[t] = "hm_leave"
    /\ threads' = [threads EXCEPT !.pc[t] = "return", !.registryLock = IF @ = t THEN 0 ELSE @]
    /\ UNCHANGED <<is64Bit, mem, prot, trampolines, hooks, addressToName, engine, lastOp, before, installs, scan>>

\* The call returns to the thread.
Return(t) ==
    /\ engine = "running"
    /\ threads.pc[t] = "return"
    /\ lastOp' = [op |-> threads.call[t].op, inner |-> threads.call[t].inner,
                  ret |-> threads.call[t].ret, thread |-> t,
                  mix |-> threads.call[t].mix, existed |-> threads.call[t].existed,
                  holds |-> {l \in {"registry", "detour"} :
                                \/ l = "registry" /\ threads.registryLock = t
                                \/ l = "detour" /\ threads.section.owner = t}]
    /\ before' = IF threads.call[t].op = "toggle" /\ threads.call[t].inner # "toggle"
                  THEN [before EXCEPT !.flips = 1 - @] ELSE before
    /\ threads' = [threads EXCEPT !.pc[t] = "idle", !.call[t] = IdleCall]
    /\ UNCHANGED <<is64Bit, mem, prot, trampolines, hooks, addressToName, engine, installs, scan>>

Step(t) ==
    \/ BeginCall(t)
    \/ HM_Enter(t)
    \/ HM_Body(t)
    \/ DL_Initialize(t)
    \/ DL_InitializeCriticalSection(t)
    \/ DL_SetInitialized(t)
    \/ DL_Enter(t)
    \/ DL_Body(t)
    \/ HM_Leave(t)
    \/ Return(t)

NextLocks == \E t \in Threads : Step(t)

\* Every thread that can take a step takes one in the end.
SpecLocks == InitLocks /\ [][NextLocks]_vars /\ \A t \in Threads : WF_vars(Step(t))

-----------------------------------------------------------------------------
(* Properties of the calls under concurrent callers.                         *)

Quiescent == \A t \in Threads : threads.pc[t] = "idle"

\* The last call was a toggle whose find() found the hook.
ToggledExisting == lastOp.op = "toggle" /\ lastOp.inner \in {"enable", "disable"}

\* C24: a toggle of an existing hook succeeds and flips its active state as
\* one atomic step: with threads toggling the same hook concurrently every
\* toggle succeeds and the final state is the initial one flipped once per
\* toggle.
C24_ToggleAtomic ==
    /\ (ToggledExisting /\ lastOp.mix \subseteq {"toggle", "isHookedName"}) => lastOp.ret
    /\ (Quiescent /\ before.pure /\ "a" \in DOMAIN hooks) => (hooks["a"].isActive <=> before.flips = 0)

\* A toggle that no other call overlaps succeeds and flips the state.
C24_ToggleAloneFlips == (ToggledExisting /\ lastOp.mix = {}) => lastOp.ret

\* The locks a thread holds, by where it is.
HoldsRegistry(t) == threads.registryLock = t
HoldsDetour(t) == threads.section.owner = t

\* Lock order: a thread that waits for the registry lock holds no lock, and a
\* thread outside every call holds none.
LockOrder ==
    \A t \in Threads :
        /\ threads.pc[t] = "hm_enter" => ~HoldsRegistry(t) /\ ~HoldsDetour(t)
        /\ threads.pc[t] \in {"idle", "return"} => ~HoldsRegistry(t) /\ ~HoldsDetour(t)

\* C27: deadlock freedom: the locks are taken in the order registry lock,
\* detour-engine lock, every path releases what it took, and every call
\* returns in the end.
C27_DeadlockFree ==
    /\ []LockOrder
    /\ \A t \in Threads : (threads.pc[t] # "idle") ~> (threads.pc[t] = "idle" \/ engine = "crashed")

\* C28: DetoursLite::criticalSection is initialized exactly once and before
\* any thread enters it, whatever the first call into the detour engine is.
C28_InitializedOnceBeforeEntry ==
    /\ threads.section.inits <= 1
    /\ ~threads.section.enteredBefore
    /\ threads.section.owner # 0 => threads.section.init

\* The lazy initialization runs under the registry lock: through install,
\* remove, enable and disable the section is initialized at most once.
C28_LazyInitSerialized == threads.section.inits <= 1

-----------------------------------------------------------------------------
(* The two layers of the hook subsystem: the registry of HookManager and the *)
(* trampoline list of DetoursLite.                                           *)

\* The targets the registry holds and the targets of the trampoline list.
RegistryTargets == {hooks[n].targetAddress : n \in DOMAIN hooks}
TrampolineTargets == {trampolines[i].originalFunction : i \in 1..Len(trampolines)}

\* The trampoline regions VirtualAlloc gave out and VirtualFree has not taken
\* back, and the regions the trampoline list records.
LiveAllocations == {slot \in TrampSlots : mem[slot] # <<>>}
RecordedAllocations == {RegionOf(mem, trampolines[i].trampolineAddress) : i \in 1..Len(trampolines)}

\* C29: after every completed operation of the hook manager the registry and
\* the trampoline list hold the same targets with the same active flags, and
\* the live trampoline allocations are the recorded ones, each recorded once.
C29_LayersConsistent ==
    engine = "running" =>
        /\ RegistryTargets = TrampolineTargets
        /\ \A n \in DOMAIN hooks : \A i \in 1..Len(trampolines) :
              trampolines[i].originalFunction = hooks[n].targetAddress =>
                  /\ trampolines[i].isActive = hooks[n].isActive
                  /\ trampolines[i].trampolineAddress = hooks[n].originalAddress
        /\ LiveAllocations = RecordedAllocations
        /\ \A i, j \in 1..Len(trampolines) :
              trampolines[i].trampolineAddress = trampolines[j].trampolineAddress => i = j

\* C29 happens: a disable that the host refused left a hook active in both
\* layers while another hook is registered, or a failed install gave its
\* trampoline back while a hook is registered.
C29_Witness ==
    /\ engine = "running"
    /\ hooks # EmptyMap
    /\ \/ lastOp.op = "disable" /\ ~lastOp.ret /\ lastOp.name \in DOMAIN hooks /\ hooks[lastOp.name].isActive
       \/ lastOp.op = "install" /\ ~lastOp.ret /\ lastOp.name \notin DOMAIN hooks
       \/ lastOp.op = "toggle" /\ lastOp.ret

-----------------------------------------------------------------------------
(* The next-scan filter over previous results of every type tag, with typed *)
(* writes in between.                                                        *)

FilterAddress == <<"A", "0", "0", "0", "1", "8">>

\* The previous results a client sends back: one result at FilterAddress of
\* each type, with the bytes the earlier scan read there.
FilterPrevious ==
    {[address |-> Stoull16(FilterAddress).value, value |-> v.value, type |-> v.type, previousValue |-> <<>>] :
        v \in {[type |-> "int32", value |-> <<0, 0, 0, 0>>],
               [type |-> "int32", value |-> <<7, 0, 0, 0>>],
               [type |-> "int32", value |-> <<255, 255, 255, 255>>],
               [type |-> "int64", value |-> <<0, 0, 0, 0, 0, 0, 0, 0>>],
               [type |-> "double", value |-> <<0, 0, 0, 0, 0, 0, 0, 0>>],
               [type |-> "double", value |-> <<0, 0, 0, 0, 0, 0, 248, 63>>],
               [type |-> "string", value |-> <<65>>],
               [type |-> "string", value |-> <<67>>],
               [type |-> "bytes", value |-> [i \in 1..BytesReadSize |-> 0]]}}

\* The value a next scan of scan type exact names, per type.
FilterTarget(type) == IF type = "string" THEN <<"B">> ELSE IF type = "bytes" THEN <<"0", "7">> ELSE <<"0">>

FilterWrites ==
    {[address |-> FilterAddress, value |-> <<"7">>, type |-> "int32"],
     [address |-> FilterAddress, value |-> <<"0">>, type |-> "int32"],
     [address |-> FilterAddress, value |-> <<"-", "1">>, type |-> "int32"],
     [address |-> FilterAddress, value |-> <<"1", ".", "5">>, type |-> "double"],
     [address |-> FilterAddress, value |-> <<"B">>, type |-> "string"]}

FilterScanTypes == {"exact", "changed", "unchanged", "increased", "decreased"}

FilterNextScan ==
    /\ engine = "running"
    /\ \E p \in FilterPrevious, scanType \in FilterScanTypes, via \in {"command", "engine"} :
       \E r \in {NextScanThrough(via, Host, scanType, FilterTarget(p.type), p.type, <<p>>)} :
          lastOp' = CmdOp("memory.scan.filter", [scanType |-> scanType, via |-> via, previous |-> p], r)
    /\ UNCHANGED <<is64Bit, mem, prot, trampolines, hooks, addressToName, engine, before, installs, scan, threads>>

FilterWrite ==
    /\ engine = "running"
    /\ \E q \in FilterWrites : \E r \in {HandleMemoryWrite(Host, q.address, q.value, q.type)} :
          /\ mem' = r.h.mem
          /\ prot' = r.h.prot
          /\ lastOp' = CmdOp("memory.write", q, r.response)
    /\ UNCHANGED <<is64Bit, trampolines, hooks, addressToName, engine, before, installs, scan, threads>>

NextFilter ==
    \/ FilterNextScan
    \/ FilterWrite

SpecFilter == InitCommands /\ [][NextFilter]_vars

\* The bytes in memory at a previous result's address when the scan ran, and
\* their order against the previous bytes decoded per the type tag.
FilterCurrent == PeekN(lastOp.pre, lastOp.args.previous.address, Len(lastOp.args.previous.value))

FilterOrder ==
    LET p == lastOp.args.previous
    IN  IF p.type = "double" THEN FloatOrder(FilterCurrent, p.value, 8) ELSE SignedOrder(FilterCurrent, p.value)

InclusionTable ==
    LET p == lastOp.args.previous
        results == lastOp.response.results
        numeric == p.type \in {"int32", "int64", "double"}
    IN  /\ (numeric /\ lastOp.args.scanType = "increased") => ((results # <<>>) <=> (FilterOrder = 1))
        /\ (numeric /\ lastOp.args.scanType = "decreased") => ((results # <<>>) <=> (FilterOrder = -1))
        /\ (p.type \in {"string", "bytes"} /\ lastOp.args.scanType \in {"increased", "decreased"}) => results = <<>>
        /\ \A i \in 1..Len(results) :
              /\ results[i].address = p.address
              /\ results[i].value = FilterCurrent
              /\ results[i].previousValue = p.value

\* C25: a next scan applies the inclusion table per type: over a numeric
\* result, increased/decreased include the address exactly when the decoded
\* current value is greater/less than the previous one; over a string or
\* bytes result, increased and decreased include nothing; every emitted
\* result keeps the address, has the newly read bytes as its value and the
\* prior bytes as its previous value.
C25_InclusionTable == lastOp.op = "memory.scan.filter" => InclusionTable

\* The same table for MemoryEngine::NextScan alone.
C25_EngineInclusionTable == (lastOp.op = "memory.scan.filter" /\ lastOp.args.via = "engine") => InclusionTable

\* A next scan through the engine that includes a numeric address which
\* increased.
C25_EngineIncreased ==
    /\ lastOp.op = "memory.scan.filter"
    /\ lastOp.args.via = "engine"
    /\ lastOp.args.scanType = "increased"
    /\ lastOp.response.results # <<>>

-----------------------------------------------------------------------------
(* SimpleDisassembler (CommandRouter.cpp): the display disassembler over a  *)
(* byte buffer, one loop iteration per step.  The operand text of an       *)
(* instruction is left out; offsets count from 0 as in the source.          *)

\* The cap of Disassemble on the instructions of one listing.
MaxInstructions == 100

GetModRMExtraBytes(modrm) ==
    LET mod == (modrm \div 64) % 4
        rm == modrm % 8
    IN  IF mod = 0 THEN (IF rm = 5 THEN 4 ELSE IF rm = 4 THEN 1 ELSE 0)
        ELSE IF mod = 1 THEN (IF rm = 4 THEN 2 ELSE 1)
        ELSE IF mod = 2 THEN (IF rm = 4 THEN 5 ELSE 4)
        ELSE 0

GetConditionalJumpName(opcode) ==
    IF opcode >= 112 /\ opcode <= 127
    THEN <<"jo", "jno", "jb", "jae", "je", "jne", "jbe", "ja", "js", "jns", "jp", "jnp", "jl", "jge", "jle", "jg">>[opcode - 111]
    ELSE "jcc"

\* The word an int8_t displacement denotes when added to a pointer.
SignExtend8(b) == IF b >= 128 THEN Wd(65280 + b, LimbBase - 1, LimbBase - 1, LimbBase - 1) ELSE Wd(b, 0, 0, 0)

\* DecodeInstruction at offset of bytes: len is the value returned (0: no
\* instruction decoded), inst is the instruction as the call leaves it.
DecodeInstruction(bytes, offset, address) ==
    LET size == Len(bytes)
        opcode == bytes[offset + 1]
        raw(n) == SubSeq(bytes, offset + 1, offset + n)
        base == [address |-> address, bytes |-> <<opcode>>, mnemonic |-> "", length |-> 0,
                 isJump |-> FALSE, isCall |-> FALSE, isRet |-> FALSE, targetAddress |-> W(0)]
        unknown == [len |-> 0, inst |-> base]
        fixed(mnemonic, n, isRet) ==
            IF offset + n - 1 < size
            THEN [len |-> n, inst |-> [base EXCEPT !.bytes = raw(n), !.mnemonic = mnemonic, !.isRet = isRet, !.length = n]]
            ELSE unknown
        modrm(mnemonic) ==
            IF offset + 1 < size
            THEN [len |-> 2 + GetModRMExtraBytes(bytes[offset + 2]),
                  inst |-> [base EXCEPT !.bytes = raw(2), !.mnemonic = mnemonic,
                                        !.length = 2 + GetModRMExtraBytes(bytes[offset + 2])]]
            ELSE unknown
        group5 ==
            IF offset + 1 < size
            THEN LET reg == (bytes[offset + 2] \div 8) % 8
                     n == 2 + GetModRMExtraBytes(bytes[offset + 2])
                 IN  [len |-> n,
                      inst |-> [base EXCEPT !.bytes = raw(2),
                                            !.mnemonic = IF reg = 2 THEN "call" ELSE IF reg = 4 THEN "jmp" ELSE "???",
                                            !.isCall = reg = 2, !.isJump = reg = 4, !.length = n]]
            ELSE unknown
        rel32(mnemonic, n, isCall) ==
            IF offset + n - 1 < size
            THEN [len |-> n,
                  inst |-> [base EXCEPT !.bytes = raw(n), !.mnemonic = mnemonic, !.isCall = isCall, !.isJump = ~isCall,
                                        !.targetAddress = WAdd(WPlus(address, n), SignExtend32(SubSeq(bytes, offset + n - 3, offset + n))),
                                        !.length = n]]
            ELSE unknown
        rel8(mnemonic) ==
            IF offset + 1 < size
            THEN [len |-> 2,
                  inst |-> [base EXCEPT !.bytes = raw(2), !.mnemonic = mnemonic, !.isJump = TRUE,
                                        !.targetAddress = WAdd(WPlus(address, 2), SignExtend8(bytes[offset + 2])),
                                        !.length = 2]]
            ELSE unknown
        twoByte ==
            IF offset + 1 < size
            THEN IF (bytes[offset + 2] \div 16) = 8 /\ offset + 5 < size
                 THEN rel32(GetConditionalJumpName(bytes[offset + 2] - 16), 6, FALSE)
                 ELSE [len |-> 2, inst |-> [base EXCEPT !.bytes = raw(2), !.mnemonic = "db", !.length = 2]]
            ELSE unknown
    IN  IF offset >= size THEN [len |-> 0, inst |-> [base EXCEPT !.bytes = <<>>]]
        ELSE CASE opcode = 144 -> fixed("nop", 1, FALSE)
               [] opcode = 195 -> fixed("ret", 1, TRUE)
               [] opcode \in {80, 81, 82, 83, 84, 85, 86, 87} -> fixed("push", 1, FALSE)
               [] opcode \in {88, 89, 90, 91, 92, 93, 94, 95} -> fixed("pop", 1, FALSE)
               [] opcode \in {139, 137} -> fixed("mov", 2, FALSE)
               [] opcode = 232 -> rel32("call", 5, TRUE)
               [] opcode = 233 -> rel32("jmp", 5, FALSE)
               [] opcode = 204 -> fixed("int3", 1, FALSE)
               [] opcode = 203 -> fixed("retf", 1, TRUE)
               [] opcode = 194 -> fixed("ret", 3, TRUE)
               [] opcode = 106 -> fixed("push", 2, FALSE)
               [] opcode = 104 -> fixed("push", 5, FALSE)
               [] opcode \in 176..183 -> fixed("mov", 2, FALSE)
               [] opcode \in 184..191 -> fixed("mov", 5, FALSE)
               [] opcode \in {1, 3} -> modrm("add")
               [] opcode \in {41, 43} -> modrm("sub")
               [] opcode \in {57, 59} -> modrm("cmp")
               [] opcode = 133 -> modrm("test")
               [] opcode = 255 -> group5
               [] opcode = 235 -> rel8("jmp")
               [] opcode = 15 -> twoByte
               [] opcode \in 112..127 -> rel8(GetConditionalJumpName(opcode))
               [] OTHER -> unknown

\* One iteration of the loop of Disassemble: the instruction it appends and
\* the bytes it advances by.
DisassembleOne(bytes, offset, address) ==
    LET fix(d) ==
            IF d.len = 0
            THEN [len |-> 1, inst |-> [d.inst EXCEPT !.bytes = @ \o <<bytes[offset + 1]>>, !.mnemonic = "db", !.length = 1]]
            ELSE d
    IN  (CHOOSE out \in {fix(a1) : a1 \in {DecodeInstruction(bytes, offset, WPlus(address, offset))}} : TRUE)

\* The byte runs the buffers are made of: instructions of every covered
\* form, with negative and positive displacements, and an uncovered opcode.
DisasmUnits ==
    {<<144>>, <<195>>, <<85>>, <<139, 69>>, <<1, 5>>, <<1, 192>>, <<43, 132>>, <<255, 21>>, <<255, 224>>,
     <<232, 251, 255, 255, 255>>, <<233, 16, 0, 0, 0>>, <<235, 254>>, <<116, 6>>,
     <<15, 132, 0, 1, 0, 0>>, <<15, 11>>, <<214>>, <<194, 8, 0>>, <<104, 1, 0, 0, 0>>,
     <<176, 1>>, <<184, 1, 0, 0, 0>>, <<106, 8>>}

NopRun == [i \in 1..(MaxInstructions + 1) |-> 144]

\* The buffers: every non-empty prefix of two units in a row, and a run of
\* more one-byte instructions than the cap.
DisasmBuffers ==
    {SubSeq(u1 \o u2, 1, n) : <<u1, u2, n>> \in {<<a, b, k>> \in DisasmUnits \X DisasmUnits \X (1..12) : k <= Len(a) + Len(b)}}
    \cup {NopRun}

\* The addresses the buffers are read from.
DisasmAddresses == {4, 10485776}

InitDisasm ==
    /\ is64Bit \in BOOLEAN
    /\ before \in {[bytes |-> b, address |-> a] : b \in DisasmBuffers, a \in DisasmAddresses}
    /\ mem = InitMem
    /\ prot = InitProt
    /\ trampolines = <<>>
    /\ hooks = EmptyMap
    /\ addressToName = EmptyMap
    /\ engine = "running"
    /\ lastOp = [op |-> "disassemble", pc |-> "loop", offset |-> 0, instructions |-> <<>>]
    /\ installs = 0
    /\ scan = NoScan
    /\ threads = NoThreads

DisassembleStep ==
    /\ lastOp.pc = "loop"
    /\ lastOp.offset < Len(before.bytes)
    /\ Len(lastOp.instructions) < MaxInstructions
    /\ \E d \in {DisassembleOne(before.bytes, lastOp.offset, W(before.address))} :
          lastOp' = [lastOp EXCEPT !.instructions = Append(@, d.inst), !.offset = @ + d.len]
    /\ UNCHANGED <<is64Bit, mem, prot, trampolines, hooks, addressToName, engine, before, installs, scan, threads>>

DisassembleReturn ==
    /\ lastOp.pc = "loop"
    /\ ~(lastOp.offset < Len(before.bytes) /\ Len(lastOp.instructions) < MaxInstructions)
    /\ lastOp' = [lastOp EXCEPT !.pc = "returned"]
    /\ UNCHANGED <<is64Bit, mem, prot, trampolines, hooks, addressToName, engine, before, installs, scan, threads>>

NextDisasm ==
    \/ DisassembleStep
    \/ DisassembleReturn

SpecDisasm == InitDisasm /\ [][NextDisasm]_vars /\ WF_vars(NextDisasm)

\* The offset of the i-th instruction of the listing in the buffer.
DisasmOffset(i) == WToNat(WSub(lastOp.instructions[i].address, W(before.address)))

\* The opcodes DecodeInstruction has a case for.
CoveredOpcodes ==
    {144, 195, 203, 204, 194, 106, 104, 139, 137, 232, 233, 1, 3, 41, 43, 57, 59, 133, 255, 235, 15}
    \cup (80..95) \cup (176..191) \cup (112..127)

\* The listed instructions follow one another from the requested address.
C26_AddressesChain ==
    LET ins == lastOp.instructions
    IN  /\ Len(ins) <= MaxInstructions
        /\ ins # <<>> => ins[1].address = W(before.address)
        /\ \A i \in 2..Len(ins) : ins[i].address = WPlus(ins[i - 1].address, ins[i - 1].length)
        /\ \A i \in 1..Len(ins) : ins[i].length >= 1

\* A byte no case decodes is listed as a db of length 1.
C26_UnknownIsDb ==
    \A i \in 1..Len(lastOp.instructions) :
       before.bytes[DisasmOffset(i) + 1] \notin CoveredOpcodes
          => lastOp.instructions[i].mnemonic = "db" /\ lastOp.instructions[i].length = 1

\* A relative jump or call targets the next instruction's address plus the
\* signed displacement.
C26_RelativeTargets ==
    \A i \in 1..Len(lastOp.instructions) :
       LET inst == lastOp.instructions[i]
           at == DisasmOffset(i)
           opcode == before.bytes[at + 1]
           next == WPlus(inst.address, inst.length)
       IN  (inst.mnemonic # "db" /\ (inst.isJump \/ inst.isCall) /\ opcode # 255)
              => WSub(inst.targetAddress, next)
                   = IF inst.length = 2 THEN SignExtend8(before.bytes[at + 2])
                     ELSE SignExtend32(SubSeq(before.bytes, at + inst.length - 3, at + inst.length))

\* Every listed instruction holds exactly the length raw bytes of the buffer
\* at its offset and ends inside the buffer.
C26_RawBytesInsideBuffer ==
    \A i \in 1..Len(lastOp.instructions) :
       LET inst == lastOp.instructions[i]
       IN  /\ Len(inst.bytes) = inst.length
           /\ DisasmOffset(i) + inst.length <= Len(before.bytes)
           /\ inst.bytes = SubSeq(before.bytes, DisasmOffset(i) + 1, DisasmOffset(i) + inst.length)

\* C26: the listing of a buffer has at most 100 instructions that tile the
\* buffer: the first at the requested address, each next one at the previous
\* address plus the previous length, every length at least 1, every
\* instruction with exactly length raw bytes and ending inside the buffer,
\* every uncovered byte a one-byte db, and every relative jump or call with
\* target = address of the next instruction + signed displacement.
C26_ListingTilesBuffer ==
    lastOp.pc = "returned" =>
        /\ C26_AddressesChain
        /\ C26_RawBytesInsideBuffer
        /\ C26_UnknownIsDb
        /\ C26_RelativeTargets

\* Disassembling a buffer terminates.
C26_Terminates == <>(lastOp.pc = "returned")

\* The listing of a buffer of more instructions than the cap stops at the cap.
C26_CapReached == lastOp.pc = "returned" /\ Len(lastOp.instructions) = MaxInstructions

-----------------------------------------------------------------------------
(* The window loops of FirstScan, ScanForValue, ScanForString and           *)
(* PatternScanAll over the bytes read for one region, one test per step:    *)
(*   for (size_t i = 0; i <= data.size() - length; i += alignment)          *)
(* The subtraction and the index are size_t arithmetic.                     *)

\* The most bytes read for a region, the most bytes of a value or pattern,
\* the bytes mapped behind the block read (a read past them faults), and the
\* results a scan can hold before an allocation fails.
MaxBlock == 5
MaxValue == 4
MappedAfter == 3
MaxFound == 10

ScanLoops == {"FirstScan", "ScanForValue", "ScanForString", "PatternScanAll"}

\* options.alignment; PatternScanAll steps by one.  matching: whether the
\* memory scanned holds the value at every offset or at none.
Alignments(loop) == IF loop = "PatternScanAll" THEN {1} ELSE {0, 1, 2, 4}

InitWindows ==
    /\ is64Bit \in BOOLEAN
    /\ before \in {[loop |-> l, size |-> s, length |-> n, alignment |-> a, matching |-> m] :
                      <<l, s, n, a, m>> \in {<<l2, s2, n2, a2, m2>> \in ScanLoops \X (1..MaxBlock) \X (1..MaxValue) \X {0, 1, 2, 4} \X BOOLEAN :
                                                a2 \in Alignments(l2)}}
    /\ mem = InitMem
    /\ prot = InitProt
    /\ trampolines = <<>>
    /\ hooks = EmptyMap
    /\ addressToName = EmptyMap
    /\ engine = "running"
    /\ lastOp = [op |-> "scan.loop", pc |-> "loop", i |-> <<>>, tested |-> FALSE, from |-> <<>>, found |-> 0]
    /\ installs = 0
    /\ scan = NoScan
    /\ threads = NoThreads

\* The index of the loop: 0 before the first test.
WindowIndex == IF lastOp.i = <<>> THEN W(0) ELSE lastOp.i

\* i <= data.size() - length.
WindowCondition == WLe(WindowIndex, WSub(W(before.size), W(before.length)))

\* Whether the window [i, i + length) lies in the bytes read, and whether it
\* lies in mapped memory.
WindowInside(i) == WIsSmall(i) /\ WToNat(i) + before.length <= before.size
WindowMapped(i) == WIsSmall(i) /\ WToNat(i) + before.length <= before.size + MappedAfter

\* One test of the loop body and the step of i.  A window outside the bytes
\* read is a read past the end of the vector: it faults or reads what lies
\* there; outside mapped memory it faults.  A match adds a result, and an
\* allocation fails once MaxFound results are held.
TestWindow ==
    /\ lastOp.pc = "loop"
    /\ WindowCondition
    /\ \E outcome \in (IF WindowInside(WindowIndex) THEN {"read"}
                       ELSE IF WindowMapped(WindowIndex) THEN UndefinedOutcomes
                       ELSE {"fault"}),
          match \in {before.matching} :
          /\ lastOp' = [lastOp EXCEPT !.tested = TRUE,
                                      !.from = WindowIndex,
                                      !.i = WAdd(WindowIndex, W(before.alignment)),
                                      !.found = IF outcome # "fault" /\ match /\ @ < MaxFound THEN @ + 1 ELSE @,
                                      !.pc = IF outcome = "fault" THEN "fault"
                                             ELSE IF match /\ lastOp.found = MaxFound THEN "bad_alloc"
                                             ELSE "loop"]
          /\ engine' = IF outcome = "fault" THEN "crashed" ELSE engine
    /\ UNCHANGED <<is64Bit, mem, prot, trampolines, hooks, addressToName, before, installs, scan, threads>>

LoopExit ==
    /\ lastOp.pc = "loop"
    /\ ~WindowCondition
    /\ lastOp' = [lastOp EXCEPT !.pc = "done"]
    /\ UNCHANGED <<is64Bit, mem, prot, trampolines, hooks, addressToName, engine, before, installs, scan, threads>>

NextWindows ==
    \/ TestWindow
    \/ LoopExit

SpecWindows == InitWindows /\ [][NextWindows]_vars /\ WF_vars(NextWindows)

\* C30: every window a scan loop tests, [i, i + length), lies within the
\* bytes read for the region, whatever the block size, the value or pattern
\* length and the alignment.
C30_WindowsInsideBlock == lastOp.tested => WindowInside(lastOp.from)

\* Every scan loop finishes.
C30_LoopsTerminate == <>(lastOp.pc # "loop")

\* With a block at least as long as the value and an alignment of at least
\* 1, the windows stay inside the block and the loop finishes.
C30_FittingWindowsInside == (before.length <= before.size /\ lastOp.tested) => WindowInside(lastOp.from)

C30_FittingLoopsTerminate == (before.length <= before.size /\ before.alignment >= 1) ~> (lastOp.pc # "loop")

====
